---- MODULE Spec2Model ----
(***************************************************************************)
(* A model of DexProtectOscRS: the packet destructurer of osc-handler      *)
(* (src/osc-handler/src/lib.rs), its delayed-bundle buffer, the receiver   *)
(* loop (src/osc-handler/src/receiver.rs), the avatar-unlock handler       *)
(* (src/app/src/osc/dex.rs), the sender (src/app/src/osc/sender.rs) and    *)
(* the start-up (src/app/src/osc.rs, src/app/src/osc/multiplexer.rs).      *)
(*                                                                         *)
(* SpecBundles drives MessageDestructuring directly: handle_packet on a    *)
(* decoded packet tree and check_osc_bundles, under a clock.               *)
(* Spec is the receiver loop: ticks, datagrams, receive errors and the     *)
(* completion of the futures the loop awaits.                              *)
(* SpecDex is the avatar-unlock handler: the messages it handles, the      *)
(* futures of handle_avatar_change and the deadline tasks they spawn.      *)
(* SpecLive is Spec with the receiver task kept running.                   *)
(* SpecStart is create_and_start_osc: the handlers installed, the sockets  *)
(* bound and the result returned.                                          *)
(* SpecKeyFile is vecu8_to_str on the bytes of a key file, SpecKeyText is  *)
(* handle_avatar_change on a decoded key text, and SpecSend is the future  *)
(* of send_raw_packet under its polls.                                     *)
(***************************************************************************)
EXTENDS Integers, Sequences, FiniteSets, TLC

\* ------------------------------------------------------------------ bounds
\* The clock runs from 1 to MaxTime (one unit is one second).
MaxTime == 3
\* The number of packets handed to handle_packet in one behaviour.
MaxPackets == 2
\* The number of datagrams the receiver loop receives in one behaviour.
MaxRecv == 2
\* OscReceiver.max_message_size, the configured maximum, in bytes.
MaxMessageSize == 6
\* The number of /avatar/change messages that start an unlock in one behaviour.
MaxUnlocks == 2
\* The longest list of forward ports of a configuration.
MaxPorts == 3

\* ------------------------------------------------------- packets and time
\* rosc::OscTime{seconds, fractional}; (0,1) is the "immediately" time-tag.
OscTime(s, f) == [seconds |-> s, fractional |-> f]

\* The time-tags bundles of the model carry: the sentinel, and two absolute
\* times inside the clock's range.
Immediately == OscTime(0, 1)
Early == OscTime(2, 0)
Late == OscTime(3, 0)

\* SystemTime::from(OscTime) then OffsetDateTime::from: the instant of a
\* time-tag, in the clock's unit (a fractional part of 2^-32 s is below it).
date_time(timetag) == timetag.seconds

\* osc_types_arc::OscPacket: Message(Arc<OscMessage>) | Bundle(OscBundle).
\* A message is identified by id (the Arc it lives behind).
Message(id) == [kind |-> "Message", id |-> id]
Bundle(timetag, content) ==
    [kind |-> "Bundle", timetag |-> timetag, content |-> content]

\* The packet trees handed to handle_packet: a message, flat bundles of each
\* time-tag, and bundles nesting a bundle of the same, an earlier and a later
\* time-tag before or after a message, and one three bundles deep, each later
\* than the one around it. Messages are numbered by their place
\* in the tree; Ingress gives them their identity.
M0 == Message(0)
Packets ==
    { M0,
      Bundle(Immediately, <<M0, M0>>),
      Bundle(Early, <<M0>>),
      Bundle(Late, <<M0>>),
      Bundle(Immediately, <<Bundle(Immediately, <<M0>>), M0>>),
      Bundle(Immediately, <<M0, Bundle(Late, <<M0>>)>>),
      Bundle(Early, <<Bundle(Immediately, <<M0>>), M0>>),
      Bundle(Early, <<M0, Bundle(Late, <<M0>>)>>),
      Bundle(Late, <<Bundle(Early, <<M0>>), M0>>),
      Bundle(Immediately,
             <<Bundle(Early, <<M0, Bundle(Late, <<M0>>)>>)>>) }

RECURSIVE Relabel(_, _, _)
\* The tree `packet` with its messages identified as <<n, path>>: the n-th
\* packet received, and the place of the message in it.
Relabel(packet, n, path) ==
    IF packet.kind = "Message"
    THEN Message(<<n, path>>)
    ELSE Bundle(packet.timetag,
                [i \in 1..Len(packet.content) |->
                    Relabel(packet.content[i], n, Append(path, i))])

Ingress(packet, n) == Relabel(packet, n, <<>>)

\* ------------------------------------------------------------------ state
VARIABLES
    \* MessageDestructuring and its handlers
    bundle_buf,   \* MessageDestructuring.bundle_buf: ReverseSortedVec<KeyValue>
    msg_calls,    \* the messages message_handler.handle was called with, in order
    pkt_calls,    \* the packets packet_handler.handle was called with, in order
    raw_calls,    \* the byte slices raw_handler.handle was called with, in order
    uuid_count,   \* the uuids drawn so far (each Uuid::new_v4 is fresh)
    now,          \* the clock read by OffsetDateTime::now_utc
    npackets,     \* the packets handed to handle_packet so far
    last,         \* the last operation: its input, result and the calls it made
    deferrals,    \* history: every push into bundle_buf, and the time of it
    releases,     \* history: every uuid check_osc_bundles returned, and the time
    \* OscReceiver::listen
    buf,          \* the receive buffer
    tick_due,     \* periodic.tick() is ready
    pc,           \* where the loop is: "select", "tick_await", "recv_await"
    awaiting,     \* the futures the loop is awaiting
    done,         \* history: the futures completed, in order
    received,     \* history: the datagrams recv_buf returned, in order
    nrecv,        \* the receives so far
    io_failed,    \* history: recv_buf has returned an error
    \* DexOscHandler, its unlock futures and its deadline tasks
    dex_use_bundles, \* DexOscHandler.dex_use_bundles
    params,       \* DexOscHandler.params: the Arc the handler holds
    arcs,         \* every Arc<Mutex<Option<(AbortHandle, HashMap)>>> made
    unlocks,      \* the handle_avatar_change futures made, and how each went
    tasks,        \* the deadline tasks spawned
    sent,         \* history: the packets handed to the sender, in order
    logged,       \* history: what the deadline tasks and handle logged
    applied,      \* history: the "applied successfully" verdicts of handle
    joining,      \* the futures of the packet being handled are being awaited
    crashed,      \* the task running the handler has panicked
    \* create_and_start_osc
    osc_create_data,     \* the configuration: OscCreateData
    start_pc,            \* where create_and_start_osc is
    message_handlers,    \* "Stub" or "Dex"
    packet_handlers,     \* "Stub" or "Multiplexer"
    raw_packet_handlers, \* "Stub" or "Multiplexer"
    binds,               \* the bind tasks of MultiplexerOsc::new (its JoinSet)
    finished,            \* the bind tasks that have finished, in that order
    forward_sockets,     \* MultiplexerOsc::new: the sockets collected
    start_result,        \* what create_and_start_osc returned
    listening,           \* the receiver task has been spawned
    \* vecu8_to_str on the bytes of a key file
    file_bytes,          \* v: the bytes handed to vecu8_to_str
    decoded,             \* what vecu8_to_str returned, once it has
    \* handle_avatar_change on the text of a key file
    key_text,            \* decoded: the text of the key file
    key_use_bundles,     \* self.dex_use_bundles
    key_socket,          \* what the socket answers each send
    key_run,             \* the run of handle_avatar_change, once made
    \* RawSendMessage, the future of send_raw_packet
    raw_payload,         \* the packet send_raw_packet was given
    raw_message,         \* RawSendMessage.message: Cell<Option<A>>
    raw_polls            \* history: what each poll of the future returned

mdVars == <<bundle_buf, msg_calls, pkt_calls, raw_calls, uuid_count, npackets,
            last, deferrals, releases>>
recvVars ==
    <<buf, tick_due, pc, awaiting, done, received, nrecv, io_failed>>
dexVars == <<dex_use_bundles, params, arcs, unlocks, tasks, sent, logged,
             applied, joining, crashed>>
startVars == <<osc_create_data, start_pc, message_handlers, packet_handlers,
               raw_packet_handlers, binds, finished, forward_sockets,
               start_result, listening>>
textVars == <<file_bytes, decoded>>
parseVars == <<key_text, key_use_bundles, key_socket, key_run>>
sendVars == <<raw_payload, raw_message, raw_polls>>
pureVars == <<textVars, parseVars, sendVars>>
vars == <<mdVars, now, recvVars, dexVars, startVars, pureVars>>

\* ------------------------------------------------------------ Results<F,T>
OscMessageR(f) == [kind |-> "OscMessage", fut |-> f]
OscBundleR(v) == [kind |-> "OscBundle", v |-> v]
NotYetApplied(uuid) == [kind |-> "NotYetApplied", uuid |-> uuid]

RECURSIVE to_messages_vec(_)
RECURSIVE FlatMap(_, _)
FlatMap(v, i) ==
    IF i > Len(v) THEN <<>> ELSE to_messages_vec(v[i]) \o FlatMap(v, i + 1)

\* Results::to_messages_vec: the futures of a plan, depth first.
to_messages_vec(r) ==
    CASE r.kind = "OscMessage" -> <<r.fut>>
      [] r.kind = "OscBundle" -> FlatMap(r.v, 1)
      [] r.kind = "NotYetApplied" -> <<>>

\* -------------------------------------------------- MessageDestructuring
\* The destructurer's own state, threaded through one call:
\*   buf    bundle_buf
\*   calls  the calls of message_handler.handle made by this call
\*   pcalls the calls of packet_handler.handle made by this call
\*   rcalls the calls of raw_handler.handle made by this call
\*   uuids  the uuids drawn
\*   pushed the entries pushed by this call
MD(vec, uuids) ==
    [buf |-> vec, calls |-> <<>>, pcalls |-> <<>>, rcalls |-> <<>>,
     uuids |-> uuids, pushed |-> <<>>]

\* key_value::KeyValue::new(key, value, uuid)
KeyValue(key, value, uuid) == [key |-> key, value |-> value, uuid |-> uuid]

\* The places at which ReverseSortedVec::push may put an entry of key k: the
\* vector stays sorted by Reverse<KeyValue>, keys non-increasing from the
\* front; among entries of the same key (KeyValue compares keys only) the
\* place is the binary search's choice.
InsertPlaces(vec, k) ==
    {i \in 1..(Len(vec) + 1) :
        /\ \A j \in 1..(i - 1) : vec[j].key >= k
        /\ \A j \in i..Len(vec) : vec[j].key <= k}

InsertAt(vec, i, e) ==
    SubSeq(vec, 1, i - 1) \o <<e>> \o SubSeq(vec, i, Len(vec))

Min(S) == CHOOSE x \in S : \A y \in S : x <= y
Max(S) == CHOOSE x \in S : \A y \in S : x >= y

\* Mutant of ReverseSortedVec::push: the entry is put at the tail.
Push_tail(vec, e, tie) == Append(vec, e)

\* ReverseSortedVec::push: tie is the binary search's choice among entries of
\* the same key ("front": before them, "back": after them).
Push(vec, e, tie) ==
    InsertAt(vec,
             IF tie = "front" THEN Min(InsertPlaces(vec, e.key))
                              ELSE Max(InsertPlaces(vec, e.key)),
             e)

\* MessageDestructuring::handle_message: the message handler is called, and
\* its future is the plan.
handle_message(md, message) ==
    [md |-> [md EXCEPT !.calls = Append(@, message.id)],
     res |-> OscMessageR(message.id)]

RECURSIVE internal_handle_packet(_, _, _, _)
RECURSIVE ApplyFrom(_, _, _, _, _, _)

\* The iteration of apply_bundle: bundle.content.iter().map(..).collect(),
\* from element i on, acc the plans collected so far.
ApplyFrom(md, content, i, acc, t, tie) ==
    IF i > Len(content)
    THEN [md |-> md, res |-> OscBundleR(acc)]
    ELSE LET r == internal_handle_packet(md, content[i], t, tie)
         IN  ApplyFrom(r.md, content, i + 1, Append(acc, r.res), t, tie)

Reversed(seq) == [i \in 1..Len(seq) |-> seq[Len(seq) + 1 - i]]

\* Mutant of apply_bundle: the content is walked from the back.
apply_bundle_reversed(md, bundle, t, tie) ==
    ApplyFrom(md, Reversed(bundle.content), 1, <<>>, t, tie)

RECURSIVE ApplyFlat(_, _, _, _, _, _)
\* Mutant of the iteration: a nested bundle is walked whatever its time-tag.
ApplyFlat(md, content, i, acc, t, tie) ==
    IF i > Len(content)
    THEN [md |-> md, res |-> OscBundleR(acc)]
    ELSE LET r == IF content[i].kind = "Message"
                  THEN handle_message(md, content[i])
                  ELSE ApplyFlat(md, content[i].content, 1, <<>>, t, tie)
         IN  ApplyFlat(r.md, content, i + 1, Append(acc, r.res), t, tie)

\* Mutant of apply_bundle: the time-tags of nested bundles are not read.
apply_bundle_flat(md, bundle, t, tie) ==
    ApplyFlat(md, bundle.content, 1, <<>>, t, tie)

\* MessageDestructuring::apply_bundle
apply_bundle(md, bundle, t, tie) ==
    ApplyFrom(md, bundle.content, 1, <<>>, t, tie)

\* MessageDestructuring::handle_bundle, the clock reading t.
handle_bundle(md, bundle, t, tie) ==
    IF bundle.timetag.seconds = 0 /\ bundle.timetag.fractional = 1
    THEN apply_bundle(md, bundle, t, tie)
    ELSE IF t > date_time(bundle.timetag)
    THEN apply_bundle(md, bundle, t, tie)
    ELSE LET uuid == md.uuids + 1
             e == KeyValue(date_time(bundle.timetag), bundle, uuid)
         IN  [md |-> [md EXCEPT !.buf = Push(@, e, tie),
                                !.uuids = uuid,
                                !.pushed = Append(@, e)],
              res |-> NotYetApplied(uuid)]

\* MessageDestructuring::internal_handle_packet
internal_handle_packet(md, packet, t, tie) ==
    IF packet.kind = "Message"
    THEN handle_message(md, packet)
    ELSE handle_bundle(md, packet, t, tie)

\* Mutant of partition_point: |x| x.0.key >= now.
partition_point_ge(vec, t) ==
    Min({i \in 1..(Len(vec) + 1) : i = Len(vec) + 1 \/ ~(vec[i].key >= t)})

\* bundle_buf.partition_point(|x| x.0.key > now): the first place whose key
\* is not after t (the buffer is sorted, keys non-increasing).
partition_point(vec, t) ==
    Min({i \in 1..(Len(vec) + 1) : i = Len(vec) + 1 \/ ~(vec[i].key > t)})

\* bundle_buf.drain(partition_point..).collect(): the drained entries, in the
\* vector's order.
to_apply(vec, t) == SubSeq(vec, partition_point(vec, t), Len(vec))

RECURSIVE ApplyDrained(_, _, _, _, _, _)
\* Mutant of the map of check_osc_bundles: every plan is returned with the
\* uuid of the first drained entry.
ApplyDrained_first(md, drained, i, acc, t, tie) ==
    IF i > Len(drained)
    THEN [md |-> md, res |-> acc]
    ELSE LET r == apply_bundle(md, drained[i].value, t, tie)
         IN  ApplyDrained(r.md, drained, i + 1,
                          Append(acc, <<drained[1].uuid, r.res>>), t, tie)

\* to_apply.into_iter().map(|x| (x.uuid, self.apply_bundle(&x.value))).collect()
ApplyDrained(md, drained, i, acc, t, tie) ==
    IF i > Len(drained)
    THEN [md |-> md, res |-> acc]
    ELSE LET r == apply_bundle(md, drained[i].value, t, tie)
         IN  ApplyDrained(r.md, drained, i + 1,
                          Append(acc, <<drained[i].uuid, r.res>>), t, tie)

\* Mutant of check_osc_bundles: the entries not drained are left in the
\* opposite order.
check_osc_bundles_reversed(md, t, tie) ==
    LET drained == to_apply(md.buf, t)
        kept == SubSeq(md.buf, 1, partition_point(md.buf, t) - 1)
    IN  ApplyDrained([md EXCEPT !.buf = Reversed(kept)], drained, 1, <<>>, t, tie)

\* MessageDestructuring::check_osc_bundles, the clock reading t.
check_osc_bundles(md, t, tie) ==
    LET drained == to_apply(md.buf, t)
        kept == SubSeq(md.buf, 1, partition_point(md.buf, t) - 1)
    IN  ApplyDrained([md EXCEPT !.buf = kept], drained, 1, <<>>, t, tie)

\* MessageDestructuring::handle_packet: the parsed-packet handler is called
\* with the packet, then the tree is walked. fut is the packet handler's
\* future, res the plan.
handle_packet(md, packet, t, tie) ==
    LET r == internal_handle_packet(
                 [md EXCEPT !.pcalls = Append(@, packet)], packet, t, tie)
    IN  [md |-> r.md, fut |-> packet, res |-> r.res]

\* ------------------------------------------------------------ SpecBundles
NoOp == [op |-> "none", t |-> 0, roots |-> <<>>, plans |-> <<>>,
         calls |-> <<>>, uuids |-> <<>>]

\* MessageDestructuring::new
InitMD ==
    /\ bundle_buf = <<>>
    /\ msg_calls = <<>>
    /\ pkt_calls = <<>>
    /\ raw_calls = <<>>
    /\ uuid_count = 0
    /\ npackets = 0
    /\ last = NoOp
    /\ deferrals = {}
    /\ releases = {}

\* OscReceiver::listen before its first iteration: an empty buffer, and an
\* interval whose first tick completes at once.
InitRecv ==
    /\ buf = <<>>
    /\ tick_due = TRUE
    /\ pc = "select"
    /\ awaiting = <<>>
    /\ done = {}
    /\ received = <<>>
    /\ nrecv = 0
    /\ io_failed = FALSE

\* DexOscHandler::new: one Arc, holding None; nothing made or sent yet.
InitDexOscHandler ==
    /\ params = 1
    /\ arcs = <<[some |-> FALSE]>>   \* Arc::new(Mutex::new(None))
    /\ unlocks = <<>>
    /\ tasks = <<>>
    /\ sent = <<>>
    /\ logged = {}
    /\ applied = {}
    /\ joining = FALSE
    /\ crashed = FALSE

\* No key file is being decoded, no key text parsed and no packet sent.
NoKeyFile == file_bytes = <<>> /\ decoded = [done |-> FALSE]
NoKeyText ==
    /\ key_text = <<>>
    /\ key_use_bundles = FALSE
    /\ key_socket = <<>>
    /\ key_run = [state |-> "idle"]
NoSend == raw_payload = <<>> /\ raw_message = [some |-> FALSE] /\ raw_polls = <<>>

\* OscCreateData, the fields create_and_start_osc decides on.
OscCreateData(enabled, ports, parse) ==
    [dex_protect_enabled |-> enabled, osc_multiplexer_rev_port |-> ports,
     osc_multiplexer_parse_packets |-> parse]

\* create_and_start_osc called with `data`, at its first line.
InitCreate(data) ==
    /\ osc_create_data = data
    /\ start_pc = "begin"
    /\ message_handlers = "Stub"
    /\ packet_handlers = "Stub"
    /\ raw_packet_handlers = "Stub"
    /\ binds = <<>>
    /\ finished = <<>>
    /\ forward_sockets = <<>>
    /\ start_result = [ok |-> FALSE, err |-> "none"]
    /\ listening = FALSE

\* impl Default for OscCreateData
DefaultData == OscCreateData(TRUE, <<>>, FALSE)

InitBundles ==
    /\ InitMD
    /\ now = 1
    /\ InitRecv
    /\ InitDexOscHandler
    /\ NoKeyFile
    /\ NoKeyText
    /\ NoSend
    /\ dex_use_bundles = FALSE
    /\ InitCreate(DefaultData)

Ties == {"front", "back"}

\* handle_packet is called with a decoded packet.
HandlePacket ==
    \E p \in Packets, tie \in Ties :
        /\ npackets < MaxPackets
        /\ LET packet == Ingress(p, npackets + 1)
               r == handle_packet(MD(bundle_buf, uuid_count), packet, now, tie)
           IN  /\ bundle_buf' = r.md.buf
               /\ msg_calls' = msg_calls \o r.md.calls
               /\ pkt_calls' = pkt_calls \o r.md.pcalls
               /\ uuid_count' = r.md.uuids
               /\ deferrals' = deferrals \cup
                      {[entry |-> r.md.pushed[i], at |-> now] :
                          i \in 1..Len(r.md.pushed)}
               /\ last' = [op |-> "handle_packet", t |-> now,
                           roots |-> <<packet>>, plans |-> <<r.res>>,
                           calls |-> r.md.calls, uuids |-> <<>>]
        /\ npackets' = npackets + 1
        /\ UNCHANGED <<dexVars, startVars, pureVars, raw_calls, now, releases, recvVars>>

\* check_osc_bundles is called (the receiver's periodic tick).
CheckOscBundles ==
    \E tie \in Ties :
        LET drained == to_apply(bundle_buf, now)
            r == check_osc_bundles(MD(bundle_buf, uuid_count), now, tie)
        IN  /\ bundle_buf' = r.md.buf
            /\ msg_calls' = msg_calls \o r.md.calls
            /\ uuid_count' = r.md.uuids
            /\ deferrals' = deferrals \cup
                   {[entry |-> r.md.pushed[i], at |-> now] :
                       i \in 1..Len(r.md.pushed)}
            /\ releases' = releases \cup
                   {[uuid |-> r.res[i][1], at |-> now] : i \in 1..Len(r.res)}
            /\ last' = [op |-> "check_osc_bundles", t |-> now,
                        roots |-> [i \in 1..Len(drained) |-> drained[i].value],
                        plans |-> [i \in 1..Len(r.res) |-> r.res[i][2]],
                        calls |-> r.md.calls,
                        uuids |-> [i \in 1..Len(r.res) |-> r.res[i][1]]]
            /\ UNCHANGED <<dexVars, startVars, pureVars, pkt_calls, raw_calls, now, npackets, recvVars>>

\* Time passes.
AdvanceTime ==
    /\ now < MaxTime
    /\ now' = now + 1
    /\ UNCHANGED <<dexVars, startVars, pureVars, mdVars, recvVars>>

NextBundles == HandlePacket \/ CheckOscBundles \/ AdvanceTime

SpecBundles == InitBundles /\ [][NextBundles]_vars

\* ----------------------------------------------------- claims: bundles
IsSentinel(timetag) == timetag.seconds = 0 /\ timetag.fractional = 1

InBuf(uuid) == \E i \in 1..Len(bundle_buf) : bundle_buf[i].uuid = uuid

Count(x, seq) == Cardinality({i \in 1..Len(seq) : seq[i] = x})

RECURSIVE Concat(_, _)
Concat(seqs, i) ==
    IF i > Len(seqs) THEN <<>> ELSE seqs[i] \o Concat(seqs, i + 1)

\* Path p comes before path q in a depth-first, left-to-right walk.
PathBefore(p, q) ==
    \E k \in 1..Len(p) :
        /\ k <= Len(q)
        /\ \A j \in 1..(k - 1) : p[j] = q[j]
        /\ p[k] < q[k]

\* The message ids of ids (all of one packet) are in depth-first order.
DepthFirst(ids) ==
    \A i, j \in 1..Len(ids) : i < j => PathBefore(ids[i][2], ids[j][2])

RECURSIVE WalkedAsPlanned(_, _)
\* The plan mirrors the walk of the packet: a message was handed to the
\* message handler, a bundle of the sentinel time-tag was descended into and
\* not deferred, and so on below every bundle descended into.
WalkedAsPlanned(packet, plan) ==
    IF packet.kind = "Message"
    THEN plan = OscMessageR(packet.id)
    ELSE /\ IsSentinel(packet.timetag) => plan.kind = "OscBundle"
         /\ plan.kind = "OscBundle" =>
                /\ Len(plan.v) = Len(packet.content)
                /\ \A i \in 1..Len(plan.v) :
                       WalkedAsPlanned(packet.content[i], plan.v[i])

\* C1: a bundle of time-tag (0,1), at any depth, is never put in the
\* delayed-bundle buffer; when the walk (of handle_packet, or of a released
\* bundle) reaches it, its messages are handed to the message handler in that
\* same call, depth first and left to right.
C1_SentinelImmediate ==
    /\ \A i \in 1..Len(bundle_buf) : ~IsSentinel(bundle_buf[i].value.timetag)
    /\ \A d \in deferrals : ~IsSentinel(d.entry.value.timetag)
    /\ Len(last.plans) = Len(last.roots)
    /\ \A i \in 1..Len(last.roots) :
           /\ WalkedAsPlanned(last.roots[i], last.plans[i])
           /\ DepthFirst(to_messages_vec(last.plans[i]))
    /\ last.calls =
           Concat([i \in 1..Len(last.plans) |-> to_messages_vec(last.plans[i])], 1)

\* C1 witness: handle_packet walked a sentinel bundle that nests a sentinel
\* bundle before a message, and both messages were handed over, inner first.
C1_Witness ==
    /\ last.op = "handle_packet"
    /\ last.roots[1].kind = "Bundle"
    /\ IsSentinel(last.roots[1].timetag)
    /\ last.roots[1].content[1].kind = "Bundle"
    /\ IsSentinel(last.roots[1].content[1].timetag)
    /\ last.calls = << <<npackets, <<1, 1>>>>, <<npackets, <<2>>>> >>
    /\ bundle_buf = <<>>

RECURSIVE NestedMessages(_, _)
\* The messages of a bundle's content that carry no time-tag of their own:
\* its messages, and those of the sentinel bundles nested in it.
NestedMessages(content, i) ==
    IF i > Len(content) THEN {}
    ELSE (IF content[i].kind = "Message" THEN {content[i].id}
          ELSE IF IsSentinel(content[i].timetag)
          THEN NestedMessages(content[i].content, 1)
          ELSE {})
         \cup NestedMessages(content, i + 1)

\* C2: a bundle whose time-tag T is later than the clock when it is handled
\* is answered NotYetApplied with no message handler call; its messages are
\* handed to the message handler exactly once, by the first tick at or after
\* T and by no tick before it.
C2_DeferredOnce ==
    /\ (/\ last.op = "handle_packet"
        /\ last.roots[1].kind = "Bundle"
        /\ ~IsSentinel(last.roots[1].timetag)
        /\ date_time(last.roots[1].timetag) > last.t)
       => /\ last.plans[1].kind = "NotYetApplied"
          /\ last.calls = <<>>
          /\ \E d \in deferrals :
                 /\ d.entry.uuid = last.plans[1].uuid
                 /\ d.entry.value = last.roots[1]
                 /\ d.at = last.t
    /\ \A d \in deferrals :
           d.entry.key > d.at =>
               /\ \A m \in NestedMessages(d.entry.value.content, 1) :
                      Count(m, msg_calls) = IF InBuf(d.entry.uuid) THEN 0 ELSE 1
               /\ (last.op = "check_osc_bundles" /\ d.entry.key <= last.t)
                      => ~InBuf(d.entry.uuid)
               /\ \A r \in releases :
                      r.uuid = d.entry.uuid => r.at >= d.entry.key
               /\ InBuf(d.entry.uuid) <=>
                      ~(\E r \in releases : r.uuid = d.entry.uuid)

\* C2 witness: a tick at exactly T released a bundle deferred before T, and
\* its message was handed over.
C2_Witness ==
    /\ last.op = "check_osc_bundles"
    /\ \E d \in deferrals :
           /\ d.entry.key > d.at
           /\ d.entry.key = last.t
           /\ \E i \in 1..Len(last.uuids) : last.uuids[i] = d.entry.uuid
           /\ NestedMessages(d.entry.value.content, 1) # {}
           /\ \A m \in NestedMessages(d.entry.value.content, 1) :
                  Count(m, last.calls) = 1

\* C18: every entry of the delayed-bundle buffer had a release time strictly
\* after the clock reading of the handle_bundle that pushed it: a bundle whose
\* time-tag is at or before that reading is never pushed.
C18_PushedStrictlyFuture ==
    \A d \in deferrals : d.entry.key > d.at

RECURSIVE NotYetAppliedIds(_)
\* The uuids of the NotYetApplied results of a plan, in the plan's order.
NotYetAppliedIds(r) ==
    IF r.kind = "NotYetApplied" THEN <<r.uuid>>
    ELSE IF r.kind = "OscMessage" THEN <<>>
    ELSE Concat([i \in 1..Len(r.v) |-> NotYetAppliedIds(r.v[i])], 1)

Distinct(seq) == \A i, j \in 1..Len(seq) : seq[i] = seq[j] => i = j

RECURSIVE AppliedAs(_, _)
\* The plan is the application of the bundle: one result per element, a
\* message answered by its handler's future, a nested bundle either walked in
\* turn or answered NotYetApplied under the uuid it was deferred with.
AppliedAs(bundle, plan) ==
    /\ plan.kind = "OscBundle"
    /\ Len(plan.v) = Len(bundle.content)
    /\ \A i \in 1..Len(plan.v) :
           IF bundle.content[i].kind = "Message"
           THEN plan.v[i] = OscMessageR(bundle.content[i].id)
           ELSE IF plan.v[i].kind = "NotYetApplied"
           THEN \E d \in deferrals :
                    /\ d.entry.uuid = plan.v[i].uuid
                    /\ d.entry.value = bundle.content[i]
           ELSE AppliedAs(bundle.content[i], plan.v[i])

\* The state half of C31.
Correlated ==
    /\ \A d1, d2 \in deferrals : d1.entry.uuid = d2.entry.uuid => d1 = d2
    /\ \A r1, r2 \in releases : r1.uuid = r2.uuid => r1 = r2
    /\ \A r \in releases :
           /\ ~InBuf(r.uuid)
           /\ \E d \in deferrals : d.entry.uuid = r.uuid /\ d.at <= r.at
    /\ \A d \in deferrals : d.entry.uuid <= uuid_count
    /\ last.op = "check_osc_bundles" =>
           /\ Distinct(last.uuids)
           /\ Len(last.plans) = Len(last.uuids)
           /\ \A i \in 1..Len(last.uuids) :
                  \E d \in deferrals :
                      /\ d.entry.uuid = last.uuids[i]
                      /\ AppliedAs(d.entry.value, last.plans[i])

\* The step half of C31: the NotYetApplied results of a call carry uuids
\* never returned before, each once, and they are the uuids of the entries
\* the call pushed; the uuids a tick returns were in the buffer, deferred by
\* an earlier call and returned by no tick before.
CorrelatedStep ==
    LET ids == Concat([i \in 1..Len(last'.plans) |->
                          NotYetAppliedIds(last'.plans[i])], 1)
    IN  /\ last' # last =>
               /\ Distinct(ids)
               /\ \A i \in 1..Len(ids) : ids[i] > uuid_count
               /\ {ids[i] : i \in 1..Len(ids)} =
                      {d.entry.uuid : d \in deferrals' \ deferrals}
        /\ \A r \in releases' \ releases :
               /\ InBuf(r.uuid)
               /\ \E d \in deferrals : d.entry.uuid = r.uuid
               /\ ~\E q \in releases : q.uuid = r.uuid

\* C31: every uuid a tick returns was returned before by exactly one
\* NotYetApplied result, a NotYetApplied uuid is returned by at most one
\* tick, and the plan returned with a uuid is the application of the bundle
\* that was deferred under it.
C31_Correlation == []Correlated /\ [][CorrelatedStep]_vars

\* C31 witness: one tick returned two uuids, each with the plan of the
\* bundle deferred under it by an earlier handle_packet.
C31_Witness ==
    /\ last.op = "check_osc_bundles"
    /\ Len(last.uuids) = 2
    /\ last.uuids[1] # last.uuids[2]
    /\ \A i \in 1..2 :
           \E d \in deferrals :
               /\ d.entry.uuid = last.uuids[i]
               /\ d.at < last.t
               /\ AppliedAs(d.entry.value, last.plans[i])
               /\ to_messages_vec(last.plans[i]) # <<>>

\* The entry was in the buffer before the step.
WasBuffered(e) == \E i \in 1..Len(bundle_buf) : bundle_buf[i] = e

\* C32: a tick at time now takes out of the delayed-bundle buffer exactly
\* the entries whose release time is at or before now; every entry whose
\* release time is after now stays, with its bundle and uuid, and these
\* entries stay in the order they had.
C32_TickPartitions ==
    [][CheckOscBundles =>
           /\ \A i \in 1..Len(bundle_buf) :
                  bundle_buf[i].key <= now =>
                      ~\E j \in 1..Len(bundle_buf') :
                           bundle_buf'[j].uuid = bundle_buf[i].uuid
           /\ SelectSeq(bundle_buf', WasBuffered) =
                  SelectSeq(bundle_buf, LAMBDA e : e.key > now)]_vars

\* C32 witness: a tick returned a due entry and left in the buffer an entry
\* deferred before it whose release time is later than the tick.
C32_Witness ==
    /\ last.op = "check_osc_bundles"
    /\ last.uuids # <<>>
    /\ \E i \in 1..Len(bundle_buf) :
           /\ bundle_buf[i].key > last.t
           /\ \E d \in deferrals : d.entry = bundle_buf[i] /\ d.at < last.t

\* C33: after any pushes (of equal release times too) and ticks the
\* delayed-bundle buffer is sorted latest first: release times never grow
\* from the front to the tail, so the entry due next is at the tail.
C33_ReverseSorted ==
    /\ \A i, j \in 1..Len(bundle_buf) :
           i < j => bundle_buf[i].key >= bundle_buf[j].key
    /\ bundle_buf # <<>> =>
           \A i \in 1..Len(bundle_buf) :
               bundle_buf[Len(bundle_buf)].key <= bundle_buf[i].key

\* C33 witness: after a tick that released an entry, an entry was pushed
\* into a buffer holding an entry of the same release time.
C33_Witness ==
    /\ releases # {}
    /\ Len(bundle_buf) = 2
    /\ bundle_buf[1].key = bundle_buf[2].key
    /\ bundle_buf[1].uuid # bundle_buf[2].uuid

RECURSIVE AllMessages(_)
\* Every message of a packet tree.
AllMessages(packet) ==
    IF packet.kind = "Message" THEN {packet.id}
    ELSE UNION {AllMessages(packet.content[i]) : i \in 1..Len(packet.content)}

RECURSIVE FutureMessages(_, _, _)
\* The messages of content, from element i on, that lie in a nested bundle
\* whose own time-tag is after t.
FutureMessages(content, i, t) ==
    IF i > Len(content) THEN {}
    ELSE (IF content[i].kind = "Message" THEN {}
          ELSE IF ~IsSentinel(content[i].timetag)
                  /\ date_time(content[i].timetag) > t
          THEN AllMessages(content[i])
          ELSE FutureMessages(content[i].content, 1, t))
         \cup FutureMessages(content, i + 1, t)

RECURSIVE FutureEnqueued(_, _, _)
\* Below a bundle that was applied at t, every nested bundle whose time-tag
\* is after t was answered NotYetApplied, and is in the history of pushes
\* under that uuid and its own time-tag.
FutureEnqueued(bundle, plan, t) ==
    plan.kind = "OscBundle" =>
        \A i \in 1..Len(bundle.content) :
            bundle.content[i].kind = "Bundle" =>
                IF ~IsSentinel(bundle.content[i].timetag)
                   /\ date_time(bundle.content[i].timetag) > t
                THEN /\ plan.v[i].kind = "NotYetApplied"
                     /\ \E d \in deferrals :
                            /\ d.entry.uuid = plan.v[i].uuid
                            /\ d.entry.value = bundle.content[i]
                            /\ d.entry.key = date_time(bundle.content[i].timetag)
                ELSE FutureEnqueued(bundle.content[i], plan.v[i], t)

\* C34: when a bundle is applied, by handle_packet or by a tick, a nested
\* bundle at any depth whose own time-tag is after the clock is enqueued and
\* not walked; its messages are handed to the message handler by no call
\* before a tick at or after its time-tag; and no message of a packet is
\* handed to the message handler twice.
C34_NestedTimeTags ==
    /\ \A i \in 1..Len(last.roots) :
           last.roots[i].kind = "Bundle" =>
               /\ FutureEnqueued(last.roots[i], last.plans[i], last.t)
               /\ \A m \in FutureMessages(last.roots[i].content, 1, last.t) :
                      Count(m, last.calls) = 0
    /\ \A d \in deferrals :
           /\ InBuf(d.entry.uuid) =>
                  \A m \in AllMessages(d.entry.value) : Count(m, msg_calls) = 0
           /\ \A r \in releases :
                  r.uuid = d.entry.uuid => r.at >= d.entry.key
    /\ Distinct(msg_calls)

\* C34 witness: the innermost message of a packet three bundles deep was
\* handed over by a tick at its bundle's time-tag, after a tick had released
\* the bundle around it and enqueued that bundle.
C34_Witness ==
    /\ last.op = "check_osc_bundles"
    /\ \E n \in 1..MaxPackets :
           /\ last.calls = << <<n, <<1, 2, 1>>>> >>
           /\ Count(<<n, <<1, 1>>>>, msg_calls) = 1
           /\ \E d \in deferrals :
                  /\ AllMessages(d.entry.value) = {<<n, <<1, 2, 1>>>>}
                  /\ \E r \in releases : r.at = d.at /\ r.uuid # d.entry.uuid
                  /\ d.entry.key = last.t
                  /\ d.at < last.t

\* ================================================================ receiver
\* --------------------------------------------------------------- the codec
\* Bytes are numbers. A message is '/' (47) and one byte for the rest of it;
\* a bundle is '#' (35), the two halves of its time-tag and its elements,
\* each behind its size.
RECURSIVE encode(_)
RECURSIVE EncodeElements(_, _)
EncodeElements(content, i) ==
    IF i > Len(content) THEN <<>>
    ELSE LET e == encode(content[i])
         IN  <<Len(e)>> \o e \o EncodeElements(content, i + 1)

\* rosc::encoder::encode
encode(packet) ==
    IF packet.kind = "Message"
    THEN <<47, packet.id>>
    ELSE <<35, packet.timetag.seconds, packet.timetag.fractional>>
             \o EncodeElements(packet.content, 1)

DecodeOk(rest, packet) == [err |-> "none", rest |-> rest, packet |-> packet]
DecodeErr(e) == [err |-> e, rest |-> <<>>, packet |-> M0]

RECURSIVE decode_udp(_)
RECURSIVE ReadElements(_, _)
\* The elements of a bundle (nom's many0 over read_bundle_element): elements
\* are read while one parses; the first that does not (too short for its
\* size, or not a packet) ends the bundle and stays in the remainder.
ReadElements(bytes, acc) ==
    IF bytes = <<>> THEN [rest |-> bytes, content |-> acc]
    ELSE LET size == bytes[1]
         IN  IF Len(bytes) - 1 < size
             THEN [rest |-> bytes, content |-> acc]
             ELSE LET e == decode_udp(SubSeq(bytes, 2, 1 + size))
                  IN  IF e.err # "none" \/ e.rest # <<>>
                      THEN [rest |-> bytes, content |-> acc]
                      ELSE ReadElements(SubSeq(bytes, 2 + size, Len(bytes)),
                                        Append(acc, e.packet))

\* rosc::decoder::decode_udp: Ok((rest, packet)) or an OscError. Empty input
\* and an unknown first byte are BadPacket; input that ends inside a message
\* or a time-tag is ReadError(Eof); a message whose body is 255 is not text
\* (StringError, one of the other errors).
decode_udp(bytes) ==
    IF bytes = <<>> THEN DecodeErr("BadPacket")
    ELSE IF bytes[1] = 47
    THEN IF Len(bytes) < 2 THEN DecodeErr("ReadError(Eof)")
         ELSE IF bytes[2] = 255 THEN DecodeErr("StringError")
         ELSE DecodeOk(SubSeq(bytes, 3, Len(bytes)), Message(bytes[2]))
    ELSE IF bytes[1] = 35
    THEN IF Len(bytes) < 3 THEN DecodeErr("ReadError(Eof)")
         ELSE LET r == ReadElements(SubSeq(bytes, 4, Len(bytes)), <<>>)
              IN  DecodeOk(r.rest,
                           Bundle(OscTime(bytes[2], bytes[3]), r.content))
    ELSE DecodeErr("BadPacket")

\* MessageDestructuring::handle_raw_packet: one packet is decoded from
\* packet_raw; the raw handler is given packet_raw, and the packet (the n-th
\* decoded) goes to handle_packet.
handle_raw_packet(md, packet_raw, n, t, tie) ==
    LET d == decode_udp(packet_raw)
    IN  IF d.err # "none"
        THEN [err |-> d.err, md |-> md]
        ELSE LET r == handle_packet(
                          [md EXCEPT !.rcalls = Append(@, packet_raw)],
                          Ingress(d.packet, n), t, tie)
             IN  [err |-> "none", rest |-> d.rest, js |-> packet_raw,
                  fut |-> r.fut, res |-> r.res, md |-> r.md]

\* MessageDestructuring::handle_raw_packets, as the receiver uses it:
\* (rest, raw future or none, the (packet future, plan) pairs, the error).
handle_raw_packets(md, packet_raw, n, t, tie) ==
    LET r == handle_raw_packet(md, packet_raw, n, t, tie)
    IN  IF r.err # "none"
        THEN [rest |-> packet_raw, jsr |-> <<>>, fut |-> <<>>,
              e |-> r.err, md |-> r.md]
        ELSE [rest |-> r.rest, jsr |-> <<r.js>>, fut |-> <<<<r.fut, r.res>>>>,
              e |-> "none", md |-> r.md]

\* ------------------------------------------------------ OscReceiver::listen
\* The datagrams the socket delivers: a message; bundles due at two times;
\* two messages in one read; a message cut in two; a bundle cut after its
\* time-tag; a message that is not text.
Datagrams ==
    { encode(Message(1)),
      encode(Bundle(Early, <<Message(1)>>)),
      encode(Bundle(Late, <<Message(1)>>)),
      encode(Message(1)) \o encode(Message(2)),
      <<47>>, <<1>>,
      <<35, 2, 0>>, <<2, 47, 1>>,
      <<47, 255>> }

\* A future of a handler: of the raw handler (id: the place of its call in
\* raw_calls), of the packet handler (id: the number of the packet) or of the
\* message handler (id: the message), produced during receive number recv.
Fut(kind, recv, id) ==
    [kind |-> kind, recv |-> recv,
     id |-> IF kind = "message" THEN id ELSE <<id, <<>>>>]

\* The futures the loop joins after handle_raw_packets: per packet its
\* packet future and the futures of its plan, and the raw future.
JoinedFutures(r, recv, nraw, npkt) ==
    Concat([i \in 1..Len(r.fut) |->
               <<Fut("packet", recv, npkt + i)>>
                   \o [j \in 1..Len(to_messages_vec(r.fut[i][2])) |->
                          Fut("message", recv, to_messages_vec(r.fut[i][2])[j])]],
           1)
        \o [i \in 1..Len(r.jsr) |-> Fut("raw", recv, nraw + i)]

\* Mutant of Await: the loop goes on without awaiting what it was handed.
AwaitNothing(futs) == "select"

\* `.await` on the join of futs in the receive branch: the loop is back at
\* the select only once they have all completed.
Await(futs) == IF futs = <<>> THEN "select" ELSE "recv_await"

\* tokio::select! { biased; periodic.tick() ..., recv_buf ... }: the branches
\* are polled in the order written, so a ready tick is taken whether or not
\* a datagram is ready.
select_recv_first(tick_ready, recv_ready) ==
    IF recv_ready THEN "recv" ELSE IF tick_ready THEN "tick" ELSE "pending"
select(tick_ready, recv_ready) ==
    IF tick_ready THEN "tick" ELSE IF recv_ready THEN "recv" ELSE "pending"

\* The tick branch: check_osc_bundles, then every future of every plan is
\* awaited, one after the other.
Tick ==
    \E tie \in Ties :
        /\ pc = "select"
        /\ select(tick_due, TRUE) = "tick"
        /\ LET drained == to_apply(bundle_buf, now)
               r == check_osc_bundles(MD(bundle_buf, uuid_count), now, tie)
           IN  /\ bundle_buf' = r.md.buf
               /\ msg_calls' = msg_calls \o r.md.calls
               /\ uuid_count' = r.md.uuids
               /\ deferrals' = deferrals \cup
                      {[entry |-> r.md.pushed[i], at |-> now] :
                          i \in 1..Len(r.md.pushed)}
               /\ releases' = releases \cup
                      {[uuid |-> r.res[i][1], at |-> now] : i \in 1..Len(r.res)}
               /\ last' = [op |-> "check_osc_bundles", t |-> now,
                           roots |-> [i \in 1..Len(drained) |-> drained[i].value],
                           plans |-> [i \in 1..Len(r.res) |-> r.res[i][2]],
                           calls |-> r.md.calls,
                           uuids |-> [i \in 1..Len(r.res) |-> r.res[i][1]]]
               /\ awaiting' = awaiting \o
                      [i \in 1..Len(r.md.calls) |->
                          Fut("message", nrecv, r.md.calls[i])]
               /\ pc' = IF r.md.calls = <<>> THEN "select" ELSE "tick_await"
        /\ tick_due' = FALSE
        /\ UNCHANGED <<dexVars, startVars, pureVars, pkt_calls, raw_calls, npackets, now, buf, done,
                       received, nrecv, io_failed>>

\* `match e` after handle_raw_packets on the filled buffer: whether the
\* buffer is handed to the raw handler, and the buffer the loop goes on with.
\* Without an error that is the undecoded rest; BadPacket and ReadError(Eof)
\* keep the buffer until it holds max_message_size bytes; every other error
\* gives the buffer up.
after_decode_unlimited(e, rest, filled) ==
    IF e = "none" THEN [raw |-> FALSE, buf |-> rest]
    ELSE IF e \in {"BadPacket", "ReadError(Eof)"}
    THEN [raw |-> FALSE, buf |-> filled]
    ELSE [raw |-> TRUE, buf |-> <<>>]
after_decode_keep(e, rest, filled) ==
    IF e = "none" THEN [raw |-> FALSE, buf |-> rest]
    ELSE IF e \in {"BadPacket", "ReadError(Eof)"}
    THEN IF Len(filled) >= MaxMessageSize
         THEN [raw |-> TRUE, buf |-> <<>>]
         ELSE [raw |-> FALSE, buf |-> filled]
    ELSE [raw |-> TRUE, buf |-> filled]
\* Mutant of the match: the last arm resets the buffer without the call of
\* the raw handler.
after_decode_quiet(e, rest, filled) ==
    IF e = "none" THEN [raw |-> FALSE, buf |-> rest]
    ELSE IF e \in {"BadPacket", "ReadError(Eof)"}
    THEN IF Len(filled) >= MaxMessageSize
         THEN [raw |-> TRUE, buf |-> <<>>]
         ELSE [raw |-> FALSE, buf |-> filled]
    ELSE [raw |-> FALSE, buf |-> <<>>]
after_decode(e, rest, filled) ==
    IF e = "none" THEN [raw |-> FALSE, buf |-> rest]
    ELSE IF e \in {"BadPacket", "ReadError(Eof)"}
    THEN IF Len(filled) >= MaxMessageSize
         THEN [raw |-> TRUE, buf |-> <<>>]
         ELSE [raw |-> FALSE, buf |-> filled]
    ELSE [raw |-> TRUE, buf |-> <<>>]

\* The receive branch, recv_buf returning Ok: the datagram is appended to the
\* buffer, handle_raw_packets is called on the buffer, the futures are
\* joined, and the buffer is replaced as the decoding went.
Recv ==
    \E d \in Datagrams, tie \in Ties :
        /\ pc = "select"
        /\ select(tick_due, TRUE) = "recv"
        /\ nrecv < MaxRecv
        /\ LET filled == buf \o d
               recv == nrecv + 1
               r == handle_raw_packets(MD(bundle_buf, uuid_count), filled,
                                       npackets + 1, now, tie)
               after == after_decode(r.e, r.rest, filled)
               surrender == after.raw
               rcalls == r.md.rcalls \o (IF surrender THEN <<filled>> ELSE <<>>)
               futs == JoinedFutures(r, recv, Len(raw_calls), npackets)
                           \o (IF surrender
                               THEN <<Fut("raw", recv, Len(raw_calls) + 1)>>
                               ELSE <<>>)
           IN  /\ bundle_buf' = r.md.buf
               /\ msg_calls' = msg_calls \o r.md.calls
               /\ pkt_calls' = pkt_calls \o r.md.pcalls
               /\ raw_calls' = raw_calls \o rcalls
               /\ uuid_count' = r.md.uuids
               /\ npackets' = npackets + Len(r.fut)
               /\ deferrals' = deferrals \cup
                      {[entry |-> r.md.pushed[i], at |-> now] :
                          i \in 1..Len(r.md.pushed)}
               /\ last' = [op |-> IF r.e = "none" THEN "handle_packet"
                                                  ELSE r.e,
                           t |-> now,
                           roots |-> r.md.pcalls,
                           plans |-> [i \in 1..Len(r.fut) |-> r.fut[i][2]],
                           calls |-> r.md.calls, uuids |-> <<>>]
               /\ buf' = after.buf
               /\ awaiting' = awaiting \o futs
               /\ pc' = Await(futs)
        /\ received' = Append(received, d)
        /\ nrecv' = nrecv + 1
        /\ UNCHANGED <<dexVars, startVars, pureVars, releases, now, tick_due, done, io_failed>>

\* The receive branch, recv_buf returning Err: a buffer that is not empty is
\* handed to the raw handler, and the buffer is replaced by an empty one.
RecvErr ==
    /\ pc = "select"
    /\ select(tick_due, TRUE) = "recv"
    /\ LET futs == IF buf = <<>> THEN <<>>
                   ELSE <<Fut("raw", nrecv, Len(raw_calls) + 1)>>
       IN  /\ raw_calls' = IF buf = <<>> THEN raw_calls
                           ELSE Append(raw_calls, buf)
           /\ awaiting' = awaiting \o futs
           /\ pc' = Await(futs)
    /\ buf' = <<>>
    /\ io_failed' = TRUE
    /\ last' = [NoOp EXCEPT !.op = "io_error", !.t = now]
    /\ UNCHANGED <<dexVars, startVars, pureVars, bundle_buf, msg_calls, pkt_calls, uuid_count, npackets,
                   deferrals, releases, now, tick_due, done, received, nrecv>>

\* A future of the join completes (they are polled together).
CompleteJoined ==
    \E i \in 1..Len(awaiting) :
        /\ pc = "recv_await"
        /\ done' = done \cup {awaiting[i]}
        /\ awaiting' = SubSeq(awaiting, 1, i - 1)
                           \o SubSeq(awaiting, i + 1, Len(awaiting))
        /\ pc' = IF Len(awaiting) = 1 THEN "select" ELSE pc
        /\ UNCHANGED <<dexVars, startVars, pureVars, mdVars, now, buf, tick_due, received, nrecv, io_failed>>

\* The future the tick branch is awaiting completes.
CompleteTick ==
    /\ pc = "tick_await"
    /\ done' = done \cup {Head(awaiting)}
    /\ awaiting' = Tail(awaiting)
    /\ pc' = IF Len(awaiting) = 1 THEN "select" ELSE pc
    /\ UNCHANGED <<dexVars, startVars, pureVars, mdVars, now, buf, tick_due, received, nrecv, io_failed>>

\* A second passes: the interval's next tick is ready (missed ticks are
\* skipped, so there is one at most).
Clock ==
    /\ now < MaxTime
    /\ now' = now + 1
    /\ tick_due' = TRUE
    /\ UNCHANGED <<dexVars, startVars, pureVars, mdVars, buf, pc, awaiting, done, received, nrecv, io_failed>>

Init ==
    /\ InitMD
    /\ now = 1
    /\ InitRecv
    /\ InitDexOscHandler
    /\ NoKeyFile
    /\ NoKeyText
    /\ NoSend
    /\ dex_use_bundles = FALSE
    /\ InitCreate(DefaultData)

Next == Tick \/ Recv \/ RecvErr \/ CompleteJoined \/ CompleteTick \/ Clock

Spec == Init /\ [][Next]_vars

\* The receiver task keeps running: a loop iteration at the select with a
\* ready tick takes it, and the futures the loop awaits complete. Nothing is
\* assumed of the socket or of the clock.
SpecLive ==
    /\ Spec
    /\ WF_vars(Tick)
    /\ WF_vars(CompleteJoined)
    /\ WF_vars(CompleteTick)

\* ------------------------------------------------- claims on the receiver
\* C3: when one tick releases several delayed bundles they are returned and
\* applied in time-tag order, the earliest release time first, and all their
\* messages have been handed over when the tick's call returns (the loop
\* awaits them before it can receive the next datagram).
C3_EarliestFirst ==
    last.op = "check_osc_bundles" =>
        /\ \A i, j \in 1..Len(last.roots) :
               i < j => date_time(last.roots[i].timetag)
                            <= date_time(last.roots[j].timetag)
        /\ \A i \in 1..Len(last.roots) :
               \A m \in NestedMessages(last.roots[i].content, 1) :
                   Count(m, last.calls) = 1
        /\ \A i \in 1..Len(awaiting) : awaiting[i].recv = nrecv

\* C4: over any sequence of received datagrams, reads with more than one
\* packet included, every byte received is handed to the raw handler exactly
\* once and in order: what the raw handler was given so far, followed by what
\* is still in the buffer, is what the socket delivered.
C4_RawBytesExact ==
    Concat(raw_calls, 1) \o buf = Concat(received, 1)

\* C5: when the datagrams received so far (two or more, no receive having
\* failed) are together one frame of at most max_message_size bytes, what
\* has been dispatched is that frame's tree, once, the raw handler having
\* been given the frame, and the buffer is empty.
C5_FragmentsAccumulate ==
    LET whole == Concat(received, 1)
        d == decode_udp(whole)
    IN  (/\ ~io_failed
         /\ Len(received) >= 2
         /\ Len(whole) <= MaxMessageSize
         /\ d.err = "none"
         /\ d.rest = <<>>)
        => /\ pkt_calls = <<Ingress(d.packet, 1)>>
           /\ raw_calls = <<whole>>
           /\ buf = <<>>

\* C6: the loop is back at its select only when nothing is awaited, and what
\* it awaits was produced since the latest receive: every raw, packet and
\* message future of receive N has completed before receive N+1.
C6_JoinedBeforeNext ==
    /\ pc = "select" => awaiting = <<>>
    /\ \A i \in 1..Len(awaiting) : awaiting[i].recv = nrecv
    /\ \A f \in done : f.recv <= nrecv
    /\ Len(pkt_calls) = npackets

\* C6 witness: the second receive's futures are awaited, and the raw, packet
\* and message futures of the first receive have all completed.
C6_Witness ==
    /\ nrecv = 2
    /\ pc = "recv_await"
    /\ \E i \in 1..Len(awaiting) : awaiting[i].kind = "message"
    /\ \A k \in {"raw", "packet", "message"} :
           \E f \in done : f.kind = k /\ f.recv = 1

\* The uuids a behaviour can hand out: one per bundle of a received packet.
Uuids == 1..(MaxRecv * MaxMessageSize)
Released(uuid) == \E r \in releases : r.uuid = uuid
Overdue(uuid) ==
    \E i \in 1..Len(bundle_buf) :
        bundle_buf[i].uuid = uuid /\ bundle_buf[i].key < now

\* C19: a bundle that is in the delayed buffer when time has passed its
\* release time is eventually released and applied by a tick, whatever
\* datagrams are ready meanwhile.
C19_OverdueReleased ==
    \A uuid \in Uuids : Overdue(uuid) ~> Released(uuid)

\* A bundle was released after its release time had passed, with datagrams
\* received up to the bound.
C19_Witness ==
    /\ nrecv = MaxRecv
    /\ \E d \in deferrals, r \in releases :
           /\ r.uuid = d.entry.uuid
           /\ d.at < d.entry.key
           /\ r.at > d.entry.key

\* A step of the receive branch with recv_buf returning Ok, and the buffer
\* handle_raw_packets is called on in it.
Received == nrecv' = nrecv + 1
Filled == buf \o received'[Len(received')]
Incomplete(e) == e \in {"BadPacket", "ReadError(Eof)"}

\* C21: a receive whose buffer fails to decode with BadPacket or
\* ReadError(Eof) keeps the buffer only if it holds no more than
\* max_message_size bytes, and keeps it when it holds fewer; a buffer of more
\* than max_message_size bytes is handed to the raw handler once and the
\* buffer is emptied. So the buffer such a failure leaves for the next
\* receive never holds more than max_message_size bytes.
C21_AccumulateUpToMax ==
    [][(Received /\ Incomplete(decode_udp(Filled).err))
           => /\ Len(Filled) < MaxMessageSize
                  => buf' = Filled /\ raw_calls' = raw_calls
              /\ Len(Filled) > MaxMessageSize
                  => buf' = <<>> /\ raw_calls' = Append(raw_calls, Filled)
              /\ buf' # <<>>
                  => buf' = Filled /\ Len(Filled) <= MaxMessageSize
              /\ pkt_calls' = pkt_calls
              /\ msg_calls' = msg_calls]_vars

\* A buffer of more than max_message_size bytes failed with BadPacket: it
\* went to the raw handler and the buffer is empty.
C21_Witness ==
    /\ last.op = "BadPacket"
    /\ buf = <<>>
    /\ raw_calls # <<>>
    /\ Len(raw_calls[Len(raw_calls)]) > MaxMessageSize

\* A step of the receive branch with recv_buf returning Err.
ReceiveFailed ==
    /\ pc = "select"
    /\ nrecv' = nrecv
    /\ now' = now
    /\ last'.op = "io_error"

\* C22: a receive whose buffer fails to decode with an error other than
\* BadPacket and ReadError(Eof), and a receive that fails, leave the buffer
\* empty and call neither the packet handler nor the message handler; the
\* buffer changes in receives only, so it is empty when the next begins.
C22_OtherErrorsReset ==
    [][/\ (Received /\ ~Incomplete(decode_udp(Filled).err)
                     /\ decode_udp(Filled).err # "none")
           => /\ buf' = <<>>
              /\ pkt_calls' = pkt_calls
              /\ msg_calls' = msg_calls
       /\ ReceiveFailed
           => /\ buf' = <<>>
              /\ pkt_calls' = pkt_calls
              /\ msg_calls' = msg_calls
       /\ buf' # buf => Received \/ ReceiveFailed]_vars

\* Both have happened: a receive failed while the buffer held a fragment,
\* and a datagram that is not text was discarded.
C22_Witness ==
    /\ io_failed
    /\ last.op = "StringError"
    /\ buf = <<>>
    /\ Len(raw_calls) = 2

\* The raw handler was called in this step with these bytes.
HandedRaw(bytes) ==
    \E i \in (Len(raw_calls) + 1)..Len(raw_calls') : raw_calls'[i] = bytes

\* C35: whenever the receiver loop replaces or empties a buffer that holds
\* bytes (after a decode that succeeded, a buffer grown to the maximum, any
\* other decode error, a receive that failed) the raw handler was called in
\* that iteration with all the bytes the buffer held; the bytes still in the
\* buffer afterwards are the undecoded end of what was handed over.
C35_NoByteDroppedUnseen ==
    [][/\ (Received /\ buf' # Filled)
           => /\ HandedRaw(Filled)
              /\ \E k \in 0..Len(Filled) :
                     buf' = SubSeq(Filled, k + 1, Len(Filled))
       /\ (ReceiveFailed /\ buf # <<>>) => HandedRaw(buf)
       /\ buf' # buf => Received \/ ReceiveFailed]_vars

\* C35 witness: the rest left by one receive and the datagram of the next
\* decoded together to a packet and a rest; the raw handler got all of it
\* and the rest is the new buffer.
C35_Witness ==
    /\ last.op = "handle_packet"
    /\ nrecv = 2
    /\ buf # <<>>
    /\ raw_calls # <<>>
    /\ LET handed == raw_calls[Len(raw_calls)]
       IN  /\ Len(handed) > Len(received[2]) + Len(buf)
           /\ SubSeq(handed, Len(handed) - Len(buf) + 1, Len(handed)) = buf

\* ============================================================ DexOscHandler
\* ----------------------------------------------------------- the key text
\* A text is a sequence of characters (strings of length one).
DigitValue ==
    [c \in {"0", "1", "2", "3", "4", "5", "6", "7", "8", "9"} |->
        CASE c = "0" -> 0 [] c = "1" -> 1 [] c = "2" -> 2 [] c = "3" -> 3
          [] c = "4" -> 4 [] c = "5" -> 5 [] c = "6" -> 6 [] c = "7" -> 7
          [] c = "8" -> 8 [] c = "9" -> 9]

RECURSIVE Gcd(_, _)
Gcd(a, b) == IF b = 0 THEN a ELSE Gcd(b, a % b)

RECURSIVE Pow10(_)
Pow10(n) == IF n = 0 THEN 1 ELSE 10 * Pow10(n - 1)

\* An f32 that is the quotient num / den, in lowest terms (the numbers of
\* the model are short, and their quotients are told apart by f32).
OscFloat(num, den) ==
    LET g == Gcd(num, den) IN [type |-> "Float", num |-> num \div g,
                               den |-> den \div g]

\* OscType::String, OscType::Int
OscString(chars) == [type |-> "String", s |-> chars]
OscInt(i) == [type |-> "Int", i |-> i]

\* decoded.replace(",", ".")
replace(text) ==
    [i \in 1..Len(text) |-> IF text[i] = "," THEN "." ELSE text[i]]

\* str::find: the place of the first `c` in text, 0 for None.
find(text, c) ==
    IF \E i \in 1..Len(text) : text[i] = c
    THEN Min({i \in 1..Len(text) : text[i] = c})
    ELSE 0

RECURSIVE split(_)
\* decoded.split("|").collect(): the fields between the bars; a text
\* without a bar (the empty text too) is one field.
split(text) ==
    LET bar == find(text, "|")
    IN  IF bar = 0 THEN <<text>>
        ELSE <<SubSeq(text, 1, bar - 1)>>
                 \o split(SubSeq(text, bar + 1, Len(text)))

RECURSIVE DigitsValue(_)
DigitsValue(digits) ==
    IF digits = <<>> THEN 0
    ELSE 10 * DigitsValue(SubSeq(digits, 1, Len(digits) - 1))
             + DigitValue[digits[Len(digits)]]

\* u32::MAX, 4294967295, as its digits.
U32_MAX == <<"4", "2", "9", "4", "9", "6", "7", "2", "9", "5">>

RECURSIVE StripZeros(_)
StripZeros(digits) ==
    IF digits # <<>> /\ digits[1] = "0" THEN StripZeros(Tail(digits))
    ELSE digits

\* The number the digits write is above u32::MAX (from_str's checked
\* multiplications and additions overflow, PosOverflow): told from the
\* digits, the number itself being out of the model checker's integers.
PosOverflow(digits) ==
    LET d == StripZeros(digits)
    IN  \/ Len(d) > Len(U32_MAX)
        \/ /\ Len(d) = Len(U32_MAX)
           /\ \E i \in 1..Len(d) :
                  /\ DigitValue[d[i]] > DigitValue[U32_MAX[i]]
                  /\ \A j \in 1..(i - 1) : d[j] = U32_MAX[j]

\* decode_number: u32::from_str. An optional "+", then one digit at least and
\* digits only, writing a number of at most u32::MAX; everything else is an
\* error (Empty, InvalidDigit, PosOverflow) and None.
decode_number_wrapping(number) ==
    LET digits == IF number # <<>> /\ number[1] = "+"
                  THEN Tail(number) ELSE number
    IN  IF digits # <<>>
           /\ \A i \in 1..Len(digits) : digits[i] \in DOMAIN DigitValue
        THEN [ok |-> TRUE,
              v |-> IF PosOverflow(digits) THEN 0 ELSE DigitsValue(digits)]
        ELSE [ok |-> FALSE, v |-> 0]
decode_number(number) ==
    LET digits == IF number # <<>> /\ number[1] = "+"
                  THEN Tail(number) ELSE number
    IN  IF /\ digits # <<>>
           /\ \A i \in 1..Len(digits) : digits[i] \in DOMAIN DigitValue
           /\ ~PosOverflow(digits)
        THEN [ok |-> TRUE, v |-> DigitsValue(digits)]
        ELSE [ok |-> FALSE, v |-> 0]

\* The body of the parse loop for one value: whole and part around the first
\* dot, amount = whole + part / 10^part_digits.
DecodeFloat(float) ==
    LET index == find(float, ".")
        whole == decode_number(IF index = 0 THEN float
                               ELSE SubSeq(float, 1, index - 1))
        part_string == IF index = 0 THEN <<>>
                       ELSE SubSeq(float, index + 1, Len(float))
        part == IF index = 0 THEN [ok |-> TRUE, v |-> 0]
                ELSE decode_number(part_string)
        part_digits == Len(part_string)
    IN  IF whole.ok /\ part.ok
        THEN [ok |-> TRUE,
              amount |-> OscFloat(whole.v * Pow10(part_digits) + part.v,
                               Pow10(part_digits))]
        ELSE [ok |-> FALSE, amount |-> OscFloat(0, 1)]

\* format!("/avatar/parameters/{}", name)
ParameterAddr(name) == <<"/avatar/parameters/", name>>
ChangeAddr == <<"/avatar/change", <<>>>>

\* rosc::OscMessage{addr, args}; OscPacket::Message; OscPacket::Bundle
OscMessage(addr, args) == [addr |-> addr, args |-> args]
PacketMessage(m) == [kind |-> "Message", message |-> m]
PacketBundle(timetag, content) ==
    [kind |-> "Bundle", timetag |-> timetag, content |-> content]

\* ------------------------------------------------------------ key files
\* A (value, name) pair as written in a key file, and the number it means.
PairA == [value |-> <<"1">>, name |-> <<"A">>, amount |-> OscFloat(1, 1)]
PairB == [value |-> <<"2", ",", "5">>, name |-> <<"B">>,
          amount |-> OscFloat(5, 2)]

RECURSIVE Render(_)
\* The key text of a list of pairs: value|name|value|name...
Render(pairs) ==
    IF pairs = <<>> THEN <<>>
    ELSE pairs[1].value \o <<"|">> \o pairs[1].name
             \o (IF Len(pairs) = 1 THEN <<>>
                 ELSE <<"|">> \o Render(Tail(pairs)))

\* The lists of pairs whose texts are the clean keys of the model.
CleanKeys == {<<PairA>>, <<PairA, PairB>>}

\* The texts a key file may hold: the clean keys, a key whose second value
\* is not a number, a key with an orphan field at its end, and the empty
\* text.
KeyTexts ==
    {Render(k) : k \in CleanKeys}
        \cup {Render(<<PairA>>) \o <<"|", "x", "|", "B">>,
              Render(<<PairA>>) \o <<"|", "2">>,
              <<>>}

\* tokio::fs::read, decrpyt and vecu8_to_str together: the file is not
\* there, cannot be read, is not text, or is a text.
FileReads ==
    {[kind |-> "NotFound", text |-> <<>>], [kind |-> "Error", text |-> <<>>],
     [kind |-> "Undecodable", text |-> <<>>]}
        \cup {[kind |-> "Text", text |-> t] : t \in KeyTexts}

\* What the socket answers the first poll of a send: sent, an error, or not
\* ready (Poll::Pending).
SendResults == {"Ok", "Err", "Pending"}

\* The most sends one unlock makes.
Sends == 1..2

\* ------------------------------------- DexOscHandler::handle_avatar_change
\* The state of one run of the future, threaded through its steps:
\*   params the expected echoes (the local HashMap)
\*   key    the messages collected for the bundle
\*   sends  the packets handed to the sender and what the socket answered
\*   state  "running", "parse_failure", or "panicked" (a send future that
\*          was Pending has dropped its payload and panics when polled
\*          again, RawSendMessage::poll_send)
Run(ps, key, sends, state) ==
    [params |-> ps, key |-> key, sends |-> sends, state |-> state]

\* osc.send_message_with_logs(packet) and `let _ = v.await`.
Send(run, packet, socket) ==
    LET result == socket[Len(run.sends) + 1]
    IN  [run EXCEPT !.sends = Append(@, [packet |-> packet,
                                         result |-> result]),
                    !.state = IF result = "Pending" THEN "panicked" ELSE @]

RECURSIVE ParseLoop(_, _, _, _, _, _)
\* while i < len { ... i += 2 } (i counts from 0).
ParseLoop(run, fields, len, i, use_bundles, socket) ==
    IF i >= len \/ run.state # "running" THEN run
    ELSE LET d == DecodeFloat(fields[i + 1])
             addr == ParameterAddr(fields[i + 2])
             message == PacketMessage(OscMessage(addr, <<d.amount>>))
             inserted == [run EXCEPT !.params = (addr :> d.amount) @@ @]
         IN  IF ~d.ok THEN [run EXCEPT !.state = "parse_failure"]
             ELSE ParseLoop(
                      IF use_bundles
                      THEN [inserted EXCEPT !.key = Append(@, message)]
                      ELSE Send(inserted, message, socket),
                      fields, len, i + 2, use_bundles, socket)

\* handle_avatar_change from the text on, up to the spawn: the run it makes.
\* state "running" at the end means the deadline task is to be spawned and
\* the state installed.
Unlock(text, use_bundles, socket) ==
    LET fields == split(replace(text))
        len == IF Len(fields) % 2 = 0 THEN Len(fields) ELSE Len(fields) - 1
        parsed == ParseLoop(Run(<<>>, <<>>, <<>>, "running"), fields, len, 0,
                            use_bundles, socket)
    IN  IF parsed.state = "running" /\ use_bundles
        THEN Send(parsed, PacketBundle(Immediately, parsed.key), socket)
        ELSE parsed

\* handle_avatar_change from the read of the key file on: a file that is not
\* found, a read that fails and bytes that are no text end it at once; a
\* text is parsed and sent.
ReadAndUnlock_empty(file, use_bundles, socket) ==
    Unlock(file.text, use_bundles, socket)
ReadAndUnlock(file, use_bundles, socket) ==
    IF file.kind = "Text"
    THEN Unlock(file.text, use_bundles, socket)
    ELSE Run(<<>>, <<>>, <<>>, file.kind)

\* ------------------------------------------------------ the messages handled
AvatarId == <<"a">>

\* The argument lists of the /avatar/parameters messages of the model: the
\* two amounts of the keys, no argument, an argument that is no float, and
\* two arguments.
EchoArgs ==
    {<<OscFloat(1, 1)>>, <<OscFloat(5, 2)>>, <<>>, <<OscInt(1)>>,
     <<OscFloat(1, 1), OscFloat(1, 1)>>}

Messages ==
    {OscMessage(ChangeAddr, args) :
        args \in {<<OscString(AvatarId)>>, <<>>, <<OscFloat(1, 1)>>,
                  <<OscString(AvatarId), OscString(AvatarId)>>,
                  <<OscString(AvatarId), OscFloat(1, 1)>>}}
        \cup {OscMessage(<<"/Avatar/Change", <<>>>>, <<OscString(AvatarId)>>),
              OscMessage(<<"/tracking/head", <<>>>>, <<OscFloat(1, 1)>>),
              OscMessage(<<"/Avatar/Parameters/", <<"A">>>>,
                         <<OscFloat(1, 1)>>)}
        \cup {OscMessage(ParameterAddr(name), args) :
                 name \in {<<"A">>, <<"B">>}, args \in EchoArgs}

\* str::eq_ignore_ascii_case, on the addresses of the model.
to_ascii_lowercase(str) ==
    IF str = "/Avatar/Change" THEN "/avatar/change" ELSE str
eq_ignore_ascii_case(addr, other) ==
    /\ to_ascii_lowercase(addr[1]) = to_ascii_lowercase(other[1])
    /\ addr[2] = other[2]

\* tokio::task::AbortHandle::abort: a task that has not finished is
\* cancelled; on a finished task nothing happens.
abort(ts, handle) ==
    [ts EXCEPT ![handle].state = IF @ = "sleeping" THEN "aborted" ELSE @]

\* Arc::new(Mutex::new(None)) and Some((abort, params))
None == [some |-> FALSE]
Some(handle, ps) == [some |-> TRUE, abort |-> handle, params |-> ps]

\* HashMap::remove
remove(ps, addr) == [a \in DOMAIN ps \ {addr} |-> ps[a]]

\* -------------------------------------------------- DexOscHandler::handle
\* The loop over the arguments of an /avatar/change message, from argument
\* i on with the id found so far: a second string or an argument that is no
\* string returns from handle ("unrecognized"); the end of the list with no
\* id found is the error "no avatar id"; the end with an id is "change".
RECURSIVE avatar_change_id(_, _, _)
avatar_change_id_first(args, i, id) ==
    IF i > Len(args)
    THEN IF id.some THEN [what |-> "change", id |-> id.s]
         ELSE [what |-> "no avatar id"]
    ELSE IF args[i].type = "String"
    THEN avatar_change_id(args, i + 1,
            IF id.some THEN id ELSE [some |-> TRUE, s |-> args[i].s])
    ELSE avatar_change_id(args, i + 1, id)
avatar_change_id(args, i, id) ==
    IF i > Len(args)
    THEN IF id.some THEN [what |-> "change", id |-> id.s]
         ELSE [what |-> "no avatar id"]
    ELSE IF args[i].type = "String"
    THEN IF ~id.some
         THEN avatar_change_id(args, i + 1, [some |-> TRUE, s |-> args[i].s])
         ELSE [what |-> "unrecognized_avatar_change"]
    ELSE [what |-> "unrecognized_avatar_change"]

\* The /avatar/change branch: exactly one string argument makes the future
\* of handle_avatar_change on a clone of the handler (its Arc as it is now);
\* every other argument list is logged as an error and dropped.
HandleAvatarChange(message) ==
    LET found == avatar_change_id(message.args, 1, [some |-> FALSE])
    IN  IF found.what = "change"
        THEN /\ Len(unlocks) < MaxUnlocks
             /\ unlocks' = Append(unlocks,
                    [params |-> params, id |-> found.id,
                     state |-> "pending",
                     file |-> [kind |-> "none", text |-> <<>>], task |-> 0])
             /\ UNCHANGED <<params, arcs, tasks, applied, logged>>
        ELSE /\ logged' = logged \cup
                    {[task |-> 0, saw |-> 0, what |-> found.what]}
             /\ UNCHANGED <<params, arcs, unlocks, tasks, applied>>

\* The checks on the echo of a parameter the map held at val: more than one
\* argument, no argument, a float that is not val, or a first argument that
\* is no float sets `replace`.
deviation_many(args, val) == Len(args) > 1
deviation(args, val) ==
    \/ Len(args) > 1
    \/ IF Len(args) = 0 THEN TRUE
       ELSE IF args[1].type = "Float" THEN args[1] # val
       ELSE TRUE

\* The /avatar/parameters/ branch.
HandleParameter(message) ==
    IF ~arcs[params].some
    THEN UNCHANGED <<params, arcs, unlocks, tasks, applied, logged>>
    ELSE LET handle == arcs[params].abort
             ps == arcs[params].params
             hit == message.addr \in DOMAIN ps
             rest == remove(ps, message.addr)
             deviates == hit /\ deviation(message.args, ps[message.addr])
             empty == DOMAIN rest = {}
             replace_ == deviates \/ empty
             locked == [arcs EXCEPT ![params] = Some(handle, rest)]
         IN  /\ arcs' = IF replace_ THEN Append(locked, None) ELSE locked
             /\ params' = IF replace_ THEN Len(arcs) + 1 ELSE params
             /\ tasks' = IF empty THEN abort(tasks, handle) ELSE tasks
             /\ applied' =
                    IF empty
                    THEN applied \cup
                             {[task |-> handle,
                               in_time |-> tasks[handle].state = "sleeping",
                               echoed |-> hit /\ ~deviates,
                               left |-> IF replace_ THEN None
                                        ELSE locked[params]]}
                    ELSE applied
             /\ UNCHANGED <<unlocks, logged>>

\* handle(message): called during the walk of a packet, before any of the
\* packet's futures is awaited.
HandleMessage(message) ==
    /\ ~crashed
    /\ ~joining
    /\ IF eq_ignore_ascii_case(message.addr, ChangeAddr)
       THEN HandleAvatarChange(message)
       ELSE IF message.addr[1] = "/avatar/parameters/"
       THEN HandleParameter(message)
       ELSE UNCHANGED <<params, arcs, unlocks, tasks, applied, logged>>
    /\ UNCHANGED <<mdVars, now, recvVars, startVars, pureVars, dex_use_bundles, sent,
                   joining, crashed>>

Handle == \E message \in Messages : HandleMessage(message)

\* The future of handle_avatar_change runs: the key file is read; its text
\* is parsed and sent; the deadline task is spawned and, with the expected
\* echoes, put into the Arc the future holds.
HandleAvatarChangeFuture ==
    \E i \in 1..Len(unlocks), file \in FileReads,
       socket \in [Sends -> SendResults] :
        /\ ~crashed
        /\ unlocks[i].state = "pending"
        /\ LET run == ReadAndUnlock(file, dex_use_bundles, socket)
               armed == run.state = "running"
               handle == Len(tasks) + 1
           IN  /\ sent' = sent \o
                      [k \in 1..Len(run.sends) |->
                          [unlock |-> i, packet |-> run.sends[k].packet,
                           result |-> run.sends[k].result]]
               /\ tasks' = IF armed
                           THEN Append(tasks,
                                    [params_clone |-> unlocks[i].params,
                                     state |-> "sleeping", unlock |-> i])
                           ELSE tasks
               /\ arcs' = IF armed
                          THEN [arcs EXCEPT ![unlocks[i].params] =
                                    Some(handle, run.params)]
                          ELSE arcs
               /\ unlocks' = [unlocks EXCEPT
                                 ![i].state = IF armed THEN "armed"
                                              ELSE run.state,
                                 ![i].file = file,
                                 ![i].task = IF armed THEN handle ELSE 0]
               /\ crashed' = (run.state = "panicked")
        /\ joining' = \E j \in 1..Len(unlocks) :
                          j # i /\ unlocks[j].state = "pending"
        /\ UNCHANGED <<mdVars, now, recvVars, startVars, pureVars, dex_use_bundles, params,
                       logged, applied>>

\* A deadline task wakes after DEX_KEY_WAIT_MS and looks into the Arc it was
\* given. The tasks sleep equally long, so they wake in the order spawned.
Deadline ==
    \E t \in 1..Len(tasks) :
        /\ tasks[t].state = "sleeping"
        /\ \A e \in 1..(t - 1) : tasks[e].state # "sleeping"
        /\ tasks' = [tasks EXCEPT ![t].state = "fired"]
        /\ LET a == arcs[tasks[t].params_clone]
           IN  logged' = logged \cup
                   {[task |-> t,
                     saw |-> IF a.some THEN a.abort ELSE 0,
                     what |-> IF ~a.some THEN "Unexpected None"
                              ELSE IF DOMAIN a.params = {}
                              THEN "All Avatar Keys have been supplied"
                              ELSE "not been fully applied"]}
        /\ UNCHANGED <<mdVars, now, recvVars, startVars, pureVars, dex_use_bundles, params, arcs,
                       unlocks, sent, applied, joining, crashed>>

InitDex ==
    /\ InitMD
    /\ now = 1
    /\ InitRecv
    /\ InitDexOscHandler
    /\ NoKeyFile
    /\ NoKeyText
    /\ NoSend
    /\ dex_use_bundles \in BOOLEAN
    /\ InitCreate(DefaultData)

NextDex == Handle \/ HandleAvatarChangeFuture \/ Deadline

SpecDex == InitDex /\ [][NextDex]_vars

\* -------------------------------------------------- claims on the handler
\* The packets unlock i handed to the sender, in order.
Emitted(i) ==
    LET mine == SelectSeq(sent, LAMBDA e : e.unlock = i)
    IN  [k \in 1..Len(mine) |-> mine[k].packet]

\* What a list of pairs is to be sent as: a message with one float per pair,
\* in order; under dex_use_bundles, in one bundle with time-tag (0,1).
ExpectedOf(pairs, use_bundles) ==
    LET messages == [j \in 1..Len(pairs) |->
                        PacketMessage(OscMessage(ParameterAddr(pairs[j].name),
                                                 <<pairs[j].amount>>))]
    IN  IF use_bundles THEN <<PacketBundle(Immediately, messages)>>
        ELSE messages
Expected(pairs) == ExpectedOf(pairs, dex_use_bundles)

\* C7: an unlock that has run on a key text that parses cleanly to N pairs
\* has emitted exactly the N messages /avatar/parameters/<name> with their
\* float, in input order (discrete), or exactly one (0,1) bundle of them.
C7_CleanKeyEmitted ==
    \A i \in 1..Len(unlocks) : \A k \in CleanKeys :
        (/\ unlocks[i].state # "pending"
         /\ unlocks[i].file.kind = "Text"
         /\ unlocks[i].file.text = Render(k))
            => Emitted(i) = Expected(k)

\* C8: a step in which an unlock ends in a parse failure sends nothing,
\* spawns no deadline task and leaves the expected-echo state as it was.
C8_ParseFailureAborts ==
    [][\A i \in 1..Len(unlocks) :
           (unlocks[i].state = "pending" /\ unlocks'[i].state = "parse_failure")
               => /\ sent' = sent
                  /\ tasks' = tasks
                  /\ arcs' = arcs
                  /\ params' = params]_vars

\* Every packet of unlock i was taken by the socket.
SentSuccessfully(i) ==
    \A k \in 1..Len(sent) : sent[k].unlock = i => sent[k].result = "Ok"

\* C9: when the last expected echo of an unlock that was sent successfully
\* arrived with its value before that unlock's deadline, its deadline task
\* is aborted, no deadline task has logged or logs its keys as not fully
\* applied, and the handler was left with an empty state.
C9_EchoedInTime ==
    \A a \in applied :
        (a.in_time /\ a.echoed /\ SentSuccessfully(tasks[a.task].unlock))
            => /\ tasks[a.task].state = "aborted"
               /\ a.left = None
               /\ ~\E e \in logged :
                      e.saw = a.task /\ e.what = "not been fully applied"

\* C10: at most one deadline task is neither aborted nor finished.
C10_OneDeadlineTask ==
    Cardinality({t \in 1..Len(tasks) : tasks[t].state = "sleeping"}) <= 1

\* The expected-echo map the handler holds is not empty.
MapNonEmpty == arcs[params].some /\ DOMAIN arcs[params].params # {}

\* Task t is live: spawned, not yet fired and not aborted.
Live(t) == tasks[t].state = "sleeping"

\* C11: the expected-echo map of the handler is non-empty if and only if a
\* deadline task is live.
C11_MapIffLiveTask ==
    MapNonEmpty <=> \E t \in 1..Len(tasks) : Live(t)

\* handle has called abort in this step (every call adds a verdict).
AbortInvoked == applied' # applied

\* The map in the Arc the handler holds goes from non-empty to empty.
BecomesEmpty ==
    /\ MapNonEmpty
    /\ arcs'[params].some
    /\ DOMAIN arcs'[params].params = {}

\* C12: abort is invoked in exactly the steps in which the expected-echo map
\* goes from non-empty to empty.
C12_AbortIffBecomesEmpty ==
    [][AbortInvoked <=> BecomesEmpty]_vars

\* C13: a deadline task that finds a state in its Arc finds the state of the
\* attempt that spawned it (the handle stored with the map is its own): it
\* never reads the map of a newer attempt.
C13_TaskReadsOwnMap ==
    \A e \in logged : e.saw # 0 => e.saw = e.task

\* A message handle has nothing to do with: its address is neither
\* /avatar/change nor under /avatar/parameters/, or it is a parameter while
\* no attempt is active, or a parameter the map does not hold.
IsChange(message) == eq_ignore_ascii_case(message.addr, ChangeAddr)
IsParameter(message) == message.addr[1] = "/avatar/parameters/"
Foreign(message) ==
    /\ ~IsChange(message)
    /\ \/ ~IsParameter(message)
       \/ ~arcs[params].some
       \/ message.addr \notin DOMAIN arcs[params].params

\* C16: handling a message that is neither /avatar/change nor an expected
\* /avatar/parameters/ echo leaves the expected echoes and the deadline
\* tasks as they are and sends nothing.
C16_ForeignIgnored ==
    [][\A message \in Messages :
          Foreign(message) /\ HandleMessage(message)
              => UNCHANGED <<params, arcs, tasks, unlocks, sent>>]_vars

ExactlyOneString(args) == Len(args) = 1 /\ args[1].type = "String"

\* C17: handling an /avatar/change whose arguments are not exactly one
\* string creates no unlock (so no file read and no send) and leaves the
\* verification state as it is; an unlock is created only by handling an
\* /avatar/change with exactly one string.
C17_OneStringStartsUnlock ==
    [][/\ \A message \in Messages :
             /\ IsChange(message)
             /\ ~ExactlyOneString(message.args)
             /\ HandleMessage(message)
             => UNCHANGED <<params, arcs, tasks, unlocks, sent>>
       /\ Len(unlocks') > Len(unlocks)
             => \E message \in Messages :
                    /\ IsChange(message)
                    /\ ExactlyOneString(message.args)
                    /\ HandleMessage(message)]_vars

\* Both kinds of malformed /avatar/change were dropped, a well-formed one
\* started an unlock.
C17_Witness ==
    /\ \E e \in logged : e.what = "unrecognized_avatar_change"
    /\ \E e \in logged : e.what = "no avatar id"
    /\ Len(unlocks) = 1

\* The first argument of an echo is absent, is no float, or is not val.
Deviates(args, val) ==
    \/ args = <<>>
    \/ args[1].type # "Float"
    \/ args[1] # val

\* C23: handling an echo whose address is in the expected-echo map and whose
\* first argument is absent, no float or not the expected value leaves the
\* handler with a new, empty state; and with an empty state no
\* /avatar/parameters/ message changes anything of the handler.
C23_DeviationAbandons ==
    [][\A message \in Messages :
          (IsParameter(message) /\ HandleMessage(message)) =>
              /\ (/\ arcs[params].some
                  /\ message.addr \in DOMAIN arcs[params].params
                  /\ Deviates(message.args,
                              arcs[params].params[message.addr]))
                     => /\ params' # params
                        /\ arcs'[params'] = None
              /\ ~arcs[params].some
                     => UNCHANGED <<params, arcs, tasks, unlocks, sent>>]_vars

\* The one attempt of the behaviour was abandoned on a deviating echo of A:
\* its Arc still expects B, its deadline task still sleeps, and the handler
\* holds an empty state.
C23_Witness ==
    /\ Len(unlocks) = 1
    /\ arcs[params] = None
    /\ \E i \in 1..Len(arcs) :
           /\ i # params
           /\ arcs[i].some
           /\ DOMAIN arcs[i].params = {ParameterAddr(<<"B">>)}
           /\ tasks[arcs[i].abort].state = "sleeping"

\* C24: a step in which the future of handle_avatar_change runs on a key
\* file that is not found, cannot be read or is no text sends nothing, spawns
\* no deadline task and leaves every expected-echo state as it was.
C24_NoKeyNoUnlock ==
    [][\A i \in 1..Len(unlocks) :
           (/\ unlocks[i].state = "pending"
            /\ unlocks'[i].state # "pending"
            /\ unlocks'[i].file.kind \in {"NotFound", "Error", "Undecodable"})
               => /\ sent' = sent
                  /\ tasks' = tasks
                  /\ arcs' = arcs
                  /\ params' = params]_vars

\* The second unlock found bytes that are no text while the first attempt
\* was waiting for its echoes: the first is as it was.
C24_Witness ==
    /\ Len(unlocks) = 2
    /\ unlocks[1].state = "armed"
    /\ unlocks[2].file.kind = "Undecodable"
    /\ MapNonEmpty
    /\ arcs[params].abort = unlocks[1].task
    /\ tasks[unlocks[1].task].state = "sleeping"
    /\ Len(tasks) = 1

\* C36: 'Key has been applied successfully' is reported, and the deadline
\* task aborted, only by an echo that consumed the last expected parameter
\* with a single float equal to its expected value; an attempt with a
\* deviating echo, or one whose key had no pairs, is never reported.
C36_AppliedOnlyIfEchoed ==
    \A a \in applied : a.echoed

\* An unlock made by an /avatar/change of the packet being walked has not
\* run yet: the futures of a packet run when its walk is over, and the next
\* packet is not read before they are done.
ChangePending == \E i \in 1..Len(unlocks) : unlocks[i].state = "pending"

\* C37: an /avatar/parameters/ message that follows an /avatar/change in
\* its packet is checked against the expected echoes only when the unlock of
\* that change has been sent and armed: no parameter message is handled
\* while the unlock of an earlier message of the packet has yet to run.
C37_EchoAfterChange ==
    [][\A message \in Messages :
          (IsParameter(message) /\ HandleMessage(message)) => ~ChangePending]_vars

\* C38: a step in which the future of handle_avatar_change arms an unlock
\* leaves its deadline handle and its map in the Arc the handler holds,
\* whatever was handled since the future was made.
C38_InstalledWhereHandlerLooks ==
    [][\A i \in 1..Len(unlocks) :
           (unlocks[i].state = "pending" /\ unlocks'[i].state = "armed")
               => /\ arcs'[params'].some
                  /\ arcs'[params'].abort = unlocks'[i].task]_vars

\* ======================================= handle_avatar_change on a key text
\* Values as written in key files, with the number each is to mean: W.F is
\* W + F / 10^(the length of F), here (W * 10^n + F) / 10^n; a W or an F
\* above u32::MAX is no number at all.
Over == <<"4", "2", "9", "4", "9", "6", "7", "2", "9", "6">>
Values ==
    {[text |-> <<"1">>, ok |-> TRUE, amount |-> OscFloat(1, 1)],
     [text |-> <<"1", ".", "0", "5">>, ok |-> TRUE,
      amount |-> OscFloat(105, 100)],
     [text |-> <<"1", ".", "5">>, ok |-> TRUE, amount |-> OscFloat(15, 10)],
     [text |-> <<"2", ",", "2", "5">>, ok |-> TRUE,
      amount |-> OscFloat(225, 100)],
     [text |-> <<"0", ".", "0", "0", "7">>, ok |-> TRUE,
      amount |-> OscFloat(7, 1000)],
     [text |-> Over, ok |-> FALSE, amount |-> OscFloat(0, 1)],
     [text |-> <<"1", ".">> \o Over, ok |-> FALSE, amount |-> OscFloat(0, 1)],
     [text |-> <<"0">> \o Over \o <<".", "5">>, ok |-> FALSE,
      amount |-> OscFloat(0, 1)]}

\* Values with one of their parts left out, and the number each would mean
\* with the missing part counted as zero.
PartialValues ==
    {[text |-> <<".", "5">>, amount |-> OscFloat(5, 10)],
     [text |-> <<"5", ".">>, amount |-> OscFloat(5, 1)]}

\* The orphan fields of the keys with an odd number of fields.
Orphans == {<<"2">>, <<"x">>}

\* A key that writes parameter A twice, with two values: "1|A|2,5|A".
Repeated == <<PairA, [PairB EXCEPT !.name = <<"A">>]>>

\* The texts handle_avatar_change is run on: the key texts of the handler's
\* model, every value above as the key of parameter A, the clean keys with
\* an orphan field behind them, and the key that repeats a name.
ParseTexts ==
    KeyTexts
        \cup {v.text \o <<"|", "A">> : v \in Values \cup PartialValues}
        \cup {Render(k) \o <<"|">> \o orphan :
                 k \in CleanKeys, orphan \in Orphans}
        \cup {Render(Repeated)}

InitKeyText ==
    /\ InitMD
    /\ now = 1
    /\ InitRecv
    /\ InitDexOscHandler
    /\ dex_use_bundles = FALSE
    /\ InitCreate(DefaultData)
    /\ NoKeyFile
    /\ NoSend
    /\ key_text \in ParseTexts
    /\ key_use_bundles \in BOOLEAN
    /\ key_socket \in [Sends -> SendResults]
    /\ key_run = [state |-> "idle"]

\* handle_avatar_change from the decoded text to the spawn of the deadline
\* task.
HandleAvatarChangeText ==
    /\ key_run.state = "idle"
    /\ key_run' = Unlock(key_text, key_use_bundles, key_socket)
    /\ UNCHANGED <<mdVars, now, recvVars, dexVars, startVars, textVars,
                   sendVars, key_text, key_use_bundles, key_socket>>

NextKeyText == HandleAvatarChangeText

SpecKeyText == InitKeyText /\ [][NextKeyText]_vars

\* ------------------------------------------------ claims on the key text
\* The packets the run handed to the sender, in order.
Handed == [k \in 1..Len(key_run.sends) |-> key_run.sends[k].packet]

\* C25: a run on a key text of k pairs and one more field has handed to the
\* sender exactly the messages of the k pairs, in order (or their one
\* bundle), and expects exactly their echoes; the orphan is neither a value
\* nor a name of them.
C25_OrphanDropped ==
    \A k \in CleanKeys : \A orphan \in Orphans :
        (/\ key_run.state # "idle"
         /\ key_text = Render(k) \o <<"|">> \o orphan)
            => /\ Handed = ExpectedOf(k, key_use_bundles)
               /\ DOMAIN key_run.params =
                      {ParameterAddr(k[j].name) : j \in 1..Len(k)}

\* C26: a run on the key "W.F|A" (a comma for the dot alike) expects and
\* sends for A the float W + F / 10^(length of F), leading zeros of F
\* counting; with W or F above u32::MAX the run ends in a parse failure,
\* having sent nothing.
C26_WholePlusFraction ==
    \A v \in Values :
        (key_run.state # "idle" /\ key_text = v.text \o <<"|", "A">>)
            => IF v.ok
               THEN /\ key_run.state # "parse_failure"
                    /\ key_run.params[ParameterAddr(<<"A">>)] = v.amount
                    /\ Handed = ExpectedOf(
                           <<[name |-> <<"A">>, amount |-> v.amount]>>,
                           key_use_bundles)
               ELSE /\ key_run.state = "parse_failure"
                    /\ Handed = <<>>

\* The key "1.05|A" was run: A is expected at 21/20.
C26_Witness ==
    /\ key_text = <<"1", ".", "0", "5", "|", "A">>
    /\ key_run.state = "running"
    /\ key_run.params[ParameterAddr(<<"A">>)] = OscFloat(21, 20)
    /\ Len(key_run.sends) = 1

\* C27: a run on a key whose value has no whole part or no fractional part
\* is not a parse failure: A is expected and sent with the missing part
\* counted as zero.
C27_PartsOptional ==
    \A v \in PartialValues :
        (key_run.state # "idle" /\ key_text = v.text \o <<"|", "A">>)
            => /\ key_run.state # "parse_failure"
               /\ ParameterAddr(<<"A">>) \in DOMAIN key_run.params
               /\ key_run.params[ParameterAddr(<<"A">>)] = v.amount

\* The messages the run handed to the sender, in order: each by itself, or
\* as the content of the bundle.
Writes ==
    Concat([k \in 1..Len(Handed) |->
               IF Handed[k].kind = "Message" THEN <<Handed[k].message>>
               ELSE [j \in 1..Len(Handed[k].content) |->
                        Handed[k].content[j].message]], 1)

RECURSIVE EchoAll(_, _, _, _)
\* The writes echoed back one after the other, from write i on, as handle
\* checks them against the map ps: the map that is left, and whether an echo
\* deviated.
EchoAll(ps, writes, i, deviated) ==
    IF i > Len(writes) THEN [params |-> ps, deviated |-> deviated]
    ELSE LET hit == writes[i].addr \in DOMAIN ps
         IN  EchoAll(remove(ps, writes[i].addr), writes, i + 1,
                     deviated \/ (hit /\ deviation(writes[i].args,
                                                   ps[writes[i].addr])))

\* C39: the expected-echo map of a run that ends armed holds, for every
\* message the run sent, its address with a value that the echo of that
\* message satisfies, a key that names a parameter twice included; echoing
\* back all the messages sent empties the map with no deviation.
C39_MapCoversWrites ==
    key_run.state = "running" =>
        /\ \A i \in 1..Len(Writes) :
               /\ Writes[i].addr \in DOMAIN key_run.params
               /\ ~deviation(Writes[i].args, key_run.params[Writes[i].addr])
        /\ LET echoed == EchoAll(key_run.params, Writes, 1, FALSE)
           IN  DOMAIN echoed.params = {} /\ ~echoed.deviated

\* ============================================================ vecu8_to_str
\* Bytes and u16s are numbers; a String is the sequence of its chars, each
\* by its code point.
\* unicode_bom::Bom::from(&[u8]): the byte-order mark the bytes begin with.
\* The marks of four bytes are looked for before UTF-16LE, whose mark the
\* mark of UTF-32LE begins with.
Starts(v, mark) == Len(v) >= Len(mark) /\ SubSeq(v, 1, Len(mark)) = mark
BomFrom(v) ==
    IF Starts(v, <<254, 255>>) THEN "Utf16Be"
    ELSE IF Starts(v, <<14, 254, 255>>) THEN "Scsu"
    ELSE IF Starts(v, <<239, 187, 191>>) THEN "Utf8"
    ELSE IF Starts(v, <<247, 100, 76>>) THEN "Utf1"
    ELSE IF Starts(v, <<251, 238, 40>>) THEN "Bocu1"
    ELSE IF Starts(v, <<0, 0, 254, 255>>) THEN "Utf32Be"
    ELSE IF \E c \in {56, 57, 43, 47} : Starts(v, <<43, 47, 118, c>>)
    THEN "Utf7"
    ELSE IF Starts(v, <<132, 49, 149, 51>>) THEN "Gb18030"
    ELSE IF Starts(v, <<221, 115, 102, 115>>) THEN "UtfEbcdic"
    ELSE IF Starts(v, <<255, 254, 0, 0>>) THEN "Utf32Le"
    ELSE IF Starts(v, <<255, 254>>) THEN "Utf16Le"
    ELSE "Null"

Continuation(b) == b \in 128..191

\* The first char of a UTF-8 byte string: its code point and its length in
\* bytes, or no char (a lone continuation byte, a sequence cut short, an
\* overlong form, a surrogate, a byte that is never UTF-8).
Utf8First(v) ==
    LET b1 == v[1]
        no == [ok |-> FALSE, cp |-> 0, len |-> 0]
    IN  IF b1 < 128 THEN [ok |-> TRUE, cp |-> b1, len |-> 1]
        ELSE IF b1 \in 194..223
        THEN IF Len(v) >= 2 /\ Continuation(v[2])
             THEN [ok |-> TRUE, cp |-> (b1 - 192) * 64 + (v[2] - 128),
                   len |-> 2]
             ELSE no
        ELSE IF b1 \in 224..239
        THEN IF /\ Len(v) >= 3
                /\ Continuation(v[2])
                /\ Continuation(v[3])
                /\ b1 = 224 => v[2] >= 160
                /\ b1 = 237 => v[2] <= 159
             THEN [ok |-> TRUE,
                   cp |-> (b1 - 224) * 4096 + (v[2] - 128) * 64
                              + (v[3] - 128),
                   len |-> 3]
             ELSE no
        ELSE IF b1 \in 240..244
        THEN IF /\ Len(v) >= 4
                /\ Continuation(v[2])
                /\ Continuation(v[3])
                /\ Continuation(v[4])
                /\ b1 = 240 => v[2] >= 144
                /\ b1 = 244 => v[2] <= 143
             THEN [ok |-> TRUE,
                   cp |-> (b1 - 240) * 262144 + (v[2] - 128) * 4096
                              + (v[3] - 128) * 64 + (v[4] - 128),
                   len |-> 4]
             ELSE no
        ELSE no

\* Option<String>
NoString == [some |-> FALSE, text |-> <<>>]
SomeString(text) == [some |-> TRUE, text |-> text]

RECURSIVE Utf8Chars(_, _)
Utf8Chars(v, acc) ==
    IF v = <<>> THEN SomeString(acc)
    ELSE LET c == Utf8First(v)
         IN  IF ~c.ok THEN NoString
             ELSE Utf8Chars(SubSeq(v, c.len + 1, Len(v)), Append(acc, c.cp))

\* String::from_utf8(v), Ok as Some and Err as None.
from_utf8(v) == Utf8Chars(v, <<>>)

\* u16::shr
shr(x, n) == x \div (2 ^ n)

RECURSIVE BitOr(_, _)
\* a | b
BitOr(a, b) ==
    IF a = 0 THEN b
    ELSE IF b = 0 THEN a
    ELSE 2 * BitOr(a \div 2, b \div 2)
             + (IF a % 2 = 1 \/ b % 2 = 1 THEN 1 ELSE 0)

RECURSIVE PairsFrom(_, _, _, _)
\* while i < len { utf16buf.push(...); i += 2 } (i counts from 0): the byte
\* that is to be the high one is shifted right by 8 and or-ed with the other.
PairsFrom(v, be, i, len) ==
    IF i >= len THEN <<>>
    ELSE <<IF be THEN BitOr(shr(v[i + 1], 8), v[i + 2])
           ELSE BitOr(shr(v[i + 2], 8), v[i + 1])>>
             \o PairsFrom(v, be, i + 2, len)

\* vecu8_to_vecu16: the bytes two by two; a last byte without a partner is
\* appended as it is.
vecu8_to_vecu16(v, be) ==
    LET len == IF Len(v) % 2 = 0 THEN Len(v) ELSE Len(v) - 1
    IN  PairsFrom(v, be, 0, len)
            \o (IF len # Len(v) THEN <<v[len + 1]>> ELSE <<>>)

RECURSIVE Utf16Chars(_, _)
\* char::decode_utf16: a high surrogate takes the low surrogate behind it; a
\* surrogate on its own is an error.
Utf16Chars(u, acc) ==
    IF u = <<>> THEN SomeString(acc)
    ELSE IF u[1] \in 55296..56319
    THEN IF Len(u) >= 2 /\ u[2] \in 56320..57343
         THEN Utf16Chars(SubSeq(u, 3, Len(u)),
                         Append(acc, 65536 + (u[1] - 55296) * 1024
                                         + (u[2] - 56320)))
         ELSE NoString
    ELSE IF u[1] \in 56320..57343 THEN NoString
    ELSE Utf16Chars(Tail(u), Append(acc, u[1]))

\* utf16_buf_to_str
utf16_buf_to_str(u) == Utf16Chars(u, <<>>)

\* VecDeque::pop_front, n times
pop_front(v, n) == SubSeq(v, n + 1, Len(v))

\* vecu8_to_str
vecu8_to_str_strip(v) ==
    LET bom == BomFrom(v)
    IN  IF bom = "Null" THEN from_utf8(pop_front(v, 3))
        ELSE IF bom = "Utf8" THEN from_utf8(pop_front(v, 3))
        ELSE IF bom = "Utf16Be"
        THEN utf16_buf_to_str(pop_front(vecu8_to_vecu16(v, TRUE), 1))
        ELSE IF bom = "Utf16Le"
        THEN utf16_buf_to_str(pop_front(vecu8_to_vecu16(v, FALSE), 1))
        ELSE NoString
vecu8_to_str(v) ==
    LET bom == BomFrom(v)
    IN  IF bom = "Null" THEN from_utf8(v)
        ELSE IF bom = "Utf8" THEN from_utf8(pop_front(v, 3))
        ELSE IF bom = "Utf16Be"
        THEN utf16_buf_to_str(pop_front(vecu8_to_vecu16(v, TRUE), 1))
        ELSE IF bom = "Utf16Le"
        THEN utf16_buf_to_str(pop_front(vecu8_to_vecu16(v, FALSE), 1))
        ELSE NoString

\* --------------------------------------------------------- the key files
\* Byte strings with the text they are in UTF-8, if any: "1|A", the empty
\* string, "1", e-acute, the euro sign, a byte that is never UTF-8, a lone
\* continuation byte, a sequence cut short.
Utf8Payloads ==
    {[bytes |-> <<49, 124, 65>>, text |-> SomeString(<<49, 124, 65>>)],
     [bytes |-> <<>>, text |-> SomeString(<<>>)],
     [bytes |-> <<49>>, text |-> SomeString(<<49>>)],
     [bytes |-> <<195, 169>>, text |-> SomeString(<<233>>)],
     [bytes |-> <<226, 130, 172>>, text |-> SomeString(<<8364>>)],
     [bytes |-> <<49, 255>>, text |-> NoString],
     [bytes |-> <<128, 49>>, text |-> NoString],
     [bytes |-> <<49, 195>>, text |-> NoString]}

\* The byte-order marks vecu8_to_str refuses.
RefusedMarks ==
    {<<43, 47, 118, 56>>, <<14, 254, 255>>, <<251, 238, 40>>,
     <<132, 49, 149, 51>>, <<221, 115, 102, 115>>, <<247, 100, 76>>,
     <<0, 0, 254, 255>>, <<255, 254, 0, 0>>}
Utf8Mark == <<239, 187, 191>>
Utf16BeMark == <<254, 255>>
Utf16LeMark == <<255, 254>>

\* The bytes of the code units of UTF-16 files: high and low byte.
HighBytes == {0, 1, 32, 255}
LowBytes == {0, 49, 65, 255}

\* The key files of the model: every payload behind no mark and behind
\* every mark, and one code unit behind each UTF-16 mark.
Files ==
    {mark \o p.bytes :
        mark \in RefusedMarks \cup {<<>>, Utf8Mark, Utf16BeMark, Utf16LeMark},
        p \in Utf8Payloads}
        \cup {Utf16BeMark \o <<hi, lo>> : hi \in HighBytes, lo \in LowBytes}
        \cup {Utf16LeMark \o <<lo, hi>> : hi \in HighBytes, lo \in LowBytes}

InitKeyFile ==
    /\ InitMD
    /\ now = 1
    /\ InitRecv
    /\ InitDexOscHandler
    /\ dex_use_bundles = FALSE
    /\ InitCreate(DefaultData)
    /\ NoKeyText
    /\ NoSend
    /\ file_bytes \in Files
    /\ decoded = [done |-> FALSE]

\* let mut decoded = match vecu8_to_str(v)
VecU8ToStr ==
    /\ ~decoded.done
    /\ decoded' = [done |-> TRUE, string |-> vecu8_to_str(file_bytes)]
    /\ UNCHANGED <<mdVars, now, recvVars, dexVars, startVars, parseVars,
                   sendVars, file_bytes>>

NextKeyFile == VecU8ToStr

SpecKeyFile == InitKeyFile /\ [][NextKeyFile]_vars

\* ------------------------------------------------ claims on the key files
\* C28: a file without a byte-order mark is decoded as the UTF-8 of all its
\* bytes; behind a UTF-8 mark, as the UTF-8 of the bytes after the three of
\* the mark; a file with the mark of UTF-7, SCSU, BOCU-1, GB18030,
\* UTF-EBCDIC, UTF-1 or UTF-32 is refused.
C28_MarkDecides ==
    decoded.done =>
        \A p \in Utf8Payloads :
            /\ file_bytes = p.bytes => decoded.string = p.text
            /\ file_bytes = Utf8Mark \o p.bytes => decoded.string = p.text
            /\ \A mark \in RefusedMarks :
                   file_bytes = mark \o p.bytes => decoded.string = NoString

\* "1|A" without a mark has been decoded, no byte stripped.
C28_Witness ==
    /\ decoded.done
    /\ file_bytes = <<49, 124, 65>>
    /\ decoded.string = SomeString(<<49, 124, 65>>)

\* C29: a file that is a UTF-16 mark and two bytes is decoded to the one
\* char whose code unit is (high byte << 8) | low byte, the bytes taken in
\* the order of the mark.
C29_HighByteShifted ==
    decoded.done =>
        \A hi \in HighBytes, lo \in LowBytes :
            (\/ file_bytes = Utf16BeMark \o <<hi, lo>>
             \/ file_bytes = Utf16LeMark \o <<lo, hi>>)
                => decoded.string = SomeString(<<hi * 256 + lo>>)

\* ========================================================= RawSendMessage
\* The packets send_raw_packet is given: byte strings of up to three bytes.
PacketBytes == {0, 1, 47}
RawPackets ==
    {<<>>} \cup {<<a>> : a \in PacketBytes}
        \cup {<<a, b>> : a, b \in PacketBytes}
        \cup {<<a, b, c>> : a, b, c \in PacketBytes}

\* Cell<Option<A>>
NoMessage == [some |-> FALSE]
SomeMessage(packet) == [some |-> TRUE, packet |-> packet]

\* OscSender::send_raw_packet(packet): the future, holding the packet.
InitSend ==
    /\ InitMD
    /\ now = 1
    /\ InitRecv
    /\ InitDexOscHandler
    /\ dex_use_bundles = FALSE
    /\ InitCreate(DefaultData)
    /\ NoKeyFile
    /\ NoKeyText
    /\ raw_payload \in RawPackets
    /\ raw_message = SomeMessage(raw_payload)
    /\ raw_polls = <<>>

\* What a poll returns, the socket answering `answer` to UdpSocket::poll_send
\* if it is asked: message.take().expect(..) panics on an empty cell;
\* otherwise Poll::map puts the message next to a Ready result and drops it
\* with a Pending one.
poll_send(message, answer) ==
    IF ~message.some THEN [kind |-> "panic"]
    ELSE IF answer = "Pending" THEN [kind |-> "Pending"]
    ELSE [kind |-> "Ready", result |-> answer, packet |-> message.packet]

\* <RawSendMessage as Future>::poll. A task that has panicked polls no more;
\* the take leaves None in the cell whatever the socket answers.
Poll ==
    \E answer \in SendResults :
        /\ \A i \in 1..Len(raw_polls) : raw_polls[i].kind # "panic"
        /\ raw_polls' = Append(raw_polls, poll_send(raw_message, answer))
        /\ raw_message' = NoMessage
        /\ UNCHANGED <<mdVars, now, recvVars, dexVars, startVars, textVars,
                       parseVars, raw_payload>>

NextSend == Poll

SpecSend == InitSend /\ [][NextSend]_vars

\* ----------------------------------------------- claims on RawSendMessage
Resolved(n) == \E j \in 1..n : raw_polls[j].kind = "Ready"

\* C30: until the future has returned Ready it holds its packet and a poll
\* of it does not panic; it returns Ready once at most, with the result of
\* the send and the packet it was given.
C30_PayloadKeptUntilReady ==
    /\ ~Resolved(Len(raw_polls)) => raw_message = SomeMessage(raw_payload)
    /\ \A i \in 1..Len(raw_polls) :
           /\ raw_polls[i].kind = "panic" => Resolved(i - 1)
           /\ raw_polls[i].kind = "Ready"
                  => /\ raw_polls[i].packet = raw_payload
                     /\ ~Resolved(i - 1)

\* ===================================================== create_and_start_osc
\* OSC_RECV_PORT, the port the receiver binds.
OSC_RECV_PORT == 9001

\* The values a forward port takes: the receiver's port and another one.
ForwardPorts == {OSC_RECV_PORT, OSC_RECV_PORT + 1}

RECURSIVE PortLists(_)
\* The lists of forward ports of at most n ports.
PortLists(n) ==
    IF n = 0 THEN {<<>>}
    ELSE PortLists(n - 1)
             \cup {Append(l, port) : l \in {l \in PortLists(n - 1) :
                                               Len(l) = n - 1},
                                     port \in ForwardPorts}

RECURSIVE dedup(_)
\* Vec::dedup: of consecutive equal elements all but the first are removed.
dedup(v) ==
    IF Len(v) <= 1 THEN v
    ELSE IF v[1] = v[2] THEN dedup(Tail(v))
    ELSE <<v[1]>> \o dedup(Tail(v))

\* Result<_, std::io::Error> of create_and_start_osc
Ok == [ok |-> TRUE, err |-> "none"]
Err(e) == [ok |-> FALSE, err |-> e]

\* The ports held by the sockets the forward binds have made.
BoundPorts == {binds[i].port : i \in {j \in 1..Len(binds) : binds[j].state = "ok"}}

\* Mutant of install: the dispatcher is put into both roles.
install_both(parse) == [packet |-> "Multiplexer", raw |-> "Multiplexer"]

\* The roles after `if osc_multiplexer_parse_packets {..} else {..}`.
install(parse) ==
    [packet |-> IF parse THEN "Multiplexer" ELSE "Stub",
     raw |-> IF parse THEN "Stub" ELSE "Multiplexer"]

\* Mutant of joined: a failed bind is skipped.
joined_skip(state) == "push"

\* The match on js.join_next(): Some(Ok(Ok(v))) is pushed, Some(Ok(Err(e)))
\* is returned.
joined(state) == IF state = "ok" THEN "push" ELSE "return"

\* The stubs, and the DexProtect handler behind a sender of its own.
CreateSender ==
    /\ start_pc = "begin"
    /\ IF osc_create_data.dex_protect_enabled
       THEN \E bound \in BOOLEAN :
                IF bound
                THEN /\ message_handlers' = "Dex"
                     /\ start_pc' = "multiplexer"
                     /\ UNCHANGED start_result
                ELSE /\ start_result' = Err("sender")
                     /\ start_pc' = "returned"
                     /\ UNCHANGED message_handlers
       ELSE /\ start_pc' = "multiplexer"
            /\ UNCHANGED <<message_handlers, start_result>>
    /\ UNCHANGED <<mdVars, now, recvVars, dexVars, pureVars, osc_create_data,
                   packet_handlers, raw_packet_handlers, binds, finished,
                   forward_sockets, listening>>

\* MultiplexerOsc::new up to its loop: dedup, and one bind task per port
\* left. With no forward port there is no dispatcher.
MultiplexerNew ==
    /\ start_pc = "multiplexer"
    /\ LET forward_ports == dedup(osc_create_data.osc_multiplexer_rev_port)
       IN  IF osc_create_data.osc_multiplexer_rev_port = <<>>
           THEN start_pc' = "receiver" /\ UNCHANGED binds
           ELSE /\ binds' = [i \in 1..Len(forward_ports) |->
                                [port |-> forward_ports[i],
                                 state |-> "spawned"]]
                /\ start_pc' = "join"
    /\ UNCHANGED <<mdVars, now, recvVars, dexVars, pureVars, osc_create_data,
                   message_handlers, packet_handlers, raw_packet_handlers,
                   finished, forward_sockets, start_result, listening>>

\* A bind task runs: UdpSocket::bind fails on a port that is taken, and may
\* fail on any.
Bind ==
    \E i \in 1..Len(binds), bound \in BOOLEAN :
        /\ start_pc = "join"
        /\ binds[i].state = "spawned"
        /\ bound => binds[i].port \notin BoundPorts
        /\ binds' = [binds EXCEPT ![i].state = IF bound THEN "ok" ELSE "err"]
        /\ finished' = Append(finished, i)
        /\ UNCHANGED <<mdVars, now, recvVars, dexVars, pureVars, osc_create_data,
                       start_pc, message_handlers, packet_handlers,
                       raw_packet_handlers, forward_sockets, start_result,
                       listening>>

\* js.join_next().await gives the next finished task: its socket is pushed,
\* or its error returned (and the JoinSet dropped, which aborts the rest).
JoinNext ==
    /\ start_pc = "join"
    /\ Len(forward_sockets) < Len(finished)
    /\ LET i == finished[Len(forward_sockets) + 1]
       IN  IF joined(binds[i].state) = "push"
           THEN /\ forward_sockets' = Append(forward_sockets, binds[i].port)
                /\ UNCHANGED <<binds, start_pc, start_result>>
           ELSE /\ start_result' = Err(<<"forward", i>>)
                /\ start_pc' = "returned"
                /\ binds' = [j \in 1..Len(binds) |->
                                IF binds[j].state = "spawned"
                                THEN [binds[j] EXCEPT !.state = "aborted"]
                                ELSE binds[j]]
                /\ UNCHANGED forward_sockets
    /\ UNCHANGED <<mdVars, now, recvVars, dexVars, pureVars, osc_create_data,
                   message_handlers, packet_handlers, raw_packet_handlers,
                   finished, listening>>

\* join_next gives None: MultiplexerOsc::new returns Ok, and the dispatcher
\* is put into its role.
MultiplexerCreated ==
    /\ start_pc = "join"
    /\ Len(forward_sockets) = Len(binds)
    /\ LET roles == install(osc_create_data.osc_multiplexer_parse_packets)
       IN  /\ packet_handlers' = roles.packet
           /\ raw_packet_handlers' = roles.raw
    /\ start_pc' = "receiver"
    /\ UNCHANGED <<mdVars, now, recvVars, dexVars, pureVars, osc_create_data,
                   message_handlers, binds, finished, forward_sockets,
                   start_result, listening>>

\* OscReceiver::new binds the receive port; bound, it listens (the receiver
\* task is spawned) and create_and_start_osc returns Ok(js).
ReceiverNew ==
    \E bound \in BOOLEAN :
        /\ start_pc = "receiver"
        /\ bound => OSC_RECV_PORT \notin BoundPorts
        /\ listening' = bound
        /\ start_result' = IF bound THEN Ok ELSE Err("receive")
        /\ start_pc' = "returned"
        /\ UNCHANGED <<mdVars, now, recvVars, dexVars, pureVars, osc_create_data,
                       message_handlers, packet_handlers, raw_packet_handlers,
                       binds, finished, forward_sockets>>

InitStart ==
    /\ InitMD
    /\ now = 1
    /\ InitRecv
    /\ InitDexOscHandler
    /\ NoKeyFile
    /\ NoKeyText
    /\ NoSend
    /\ dex_use_bundles = FALSE
    /\ \E enabled \in BOOLEAN, ports \in PortLists(MaxPorts),
          parse \in BOOLEAN :
           InitCreate(OscCreateData(enabled, ports, parse))

NextStart ==
    CreateSender \/ MultiplexerNew \/ Bind \/ JoinNext \/ MultiplexerCreated
        \/ ReceiverNew

SpecStart == InitStart /\ [][NextStart]_vars

\* ------------------------------------------------- claims on the start-up
\* The port values of a list.
PortsOf(list) == {list[i] : i \in 1..Len(list)}

\* C14: MultiplexerOsc::new never has two bind tasks for one port value, and
\* when it succeeds it holds one socket for each distinct port of the list.
C14_OneSocketPerPort ==
    /\ \A i, j \in 1..Len(binds) : i # j => binds[i].port # binds[j].port
    /\ start_pc = "receiver" =>
           /\ Len(forward_sockets)
                  = Cardinality(PortsOf(osc_create_data.osc_multiplexer_rev_port))
           /\ PortsOf(forward_sockets)
                  = PortsOf(osc_create_data.osc_multiplexer_rev_port)

\* C15: once create_and_start_osc has built its handlers (it is at the
\* receiver, or has returned Ok), the message handler is the DexProtect
\* handler iff dex_protect_enabled, and with forward ports the dispatcher is
\* in the parsed-packet role iff the parse flag is set and in the raw role
\* iff not; without forward ports both roles are stubs.
C15_HandlersAsConfigured ==
    (start_pc = "receiver" \/ start_result.ok) =>
        LET forwards == osc_create_data.osc_multiplexer_rev_port # <<>>
            parse == osc_create_data.osc_multiplexer_parse_packets
        IN  /\ message_handlers = "Dex" <=> osc_create_data.dex_protect_enabled
            /\ message_handlers \in {"Dex", "Stub"}
            /\ packet_handlers = IF forwards /\ parse THEN "Multiplexer"
                                                     ELSE "Stub"
            /\ raw_packet_handlers = IF forwards /\ ~parse THEN "Multiplexer"
                                                          ELSE "Stub"

\* C15 witness: started with DexProtect off and the dispatcher in the parsed
\* role.
C15_Witness ==
    /\ start_result.ok
    /\ listening
    /\ ~osc_create_data.dex_protect_enabled
    /\ message_handlers = "Stub"
    /\ packet_handlers = "Multiplexer"
    /\ raw_packet_handlers = "Stub"

\* C20: the receiver task is started only if no bind has failed; a failed
\* forward bind that the loop has come to makes the construction return, with
\* the error of the first bind that finished in failure; after any error
\* create_and_start_osc has returned it and started no receiver.
C20_BindFailurePropagates ==
    /\ listening =>
           /\ start_result.ok
           /\ \A i \in 1..Len(binds) : binds[i].state = "ok"
    /\ \A k \in 1..Len(finished) :
           (binds[finished[k]].state = "err" /\ k <= Len(forward_sockets) + 1
                /\ start_pc # "join")
               => /\ start_pc = "returned"
                  /\ start_result = Err(<<"forward", finished[k]>>)
    /\ \A k \in 1..Len(forward_sockets) : binds[finished[k]].state = "ok"
    /\ start_result.err # "none" => start_pc = "returned" /\ ~listening
    /\ start_pc = "returned" => start_result # Err("none")

\* C20 witness: a forward bind failed after another had succeeded, and
\* create_and_start_osc returned that error without starting the receiver.
C20_Witness ==
    /\ start_pc = "returned"
    /\ ~listening
    /\ Len(forward_sockets) >= 1
    /\ \E i \in 1..Len(binds) :
           binds[i].state = "err" /\ start_result = Err(<<"forward", i>>)

====
